---- MODULE Spec2Model ----
(***************************************************************************)
(* Model of the DIHARD III baseline's VB resegmentation wrapper            *)
(* (recipes/track1/local/diarization/VB_resegmentation.py), of the         *)
(* iteration loop of the engine it calls, and of score_recordings          *)
(* (recipes/track1/local/segmentation/score_sad.py).                       *)
(*                                                                         *)
(* Frames are 0-indexed in the source; an array of n frames is modelled as *)
(* a sequence of length n whose element f+1 is frame f.                    *)
(***************************************************************************)
EXTENDS Integers, Sequences, FiniteSets, TLC

\* ------------------------------------------------------------------ bounds
\* Largest frame count of a recording.
MaxFrames == 3
\* Longest segment list handed to get_labels.
MaxSegs == 3
\* Number of get_labels calls made on one segment list.
MaxCalls == 2

\* Largest frame count in utt2num_frames (main).
MaxRecFrames == 2
\* Most lines read from the initial RTTM file (main).
MaxLines == 2

\* Longest label array handed to write_rttm_file, and its largest label.
MaxTurnFrames == 4
MaxLabel == 3

\* Largest --max-iters, and largest value of the auxiliary function (in
\* units of epsilon).
MaxIterBudget == 4
MaxAux == 3

\* Largest --n-jobs of score_sad.
MaxJobs == 2

\* Speaker ids of the initial segmentation.
Speakers == {"A", "B"}

\* --step in ticks of 0.005 s (the default 0.01 s): times of the RTTM file are
\* whole numbers of ticks, so that a time may fall inside a frame.  Binary
\* floating-point rounding of onset/step is not modelled.
step == 2

VARIABLES
    \* get_labels(segs, n_frames): arguments, locals and position
    segs, n_frames, n_speakers, speaker_dict, ref, gl_pc, seg_idx,
    \* history: the segment list as first passed, the arrays returned so far
    segs_in, returned,
    \* main: inputs (utt2num_frames, --max-speakers) and position
    frame_counts, max_speakers, pc, error_in,
    \* main: the order of the lines of utt2num_frames, --initialize, the state
    \* of NumPy's global random generator, the initial posteriors q
    utt_order, initialize, rng, q,
    \* load_rttm: its local mapping, the number of lines read, the line read
    \* last and what became of it (history)
    loading, lines_read, line, outcome, warned,
    \* main: the mapping load_rttm returned, the loop index and the locals of
    \* the loop body
    recordings, rec_idx, init_labels, mask, q_out, predicted_labels,
    \* the files of output_dir/per_file_rttm, and history of the run: engine
    \* calls made, recordings skipped with the warning
    outputs, engine_calls, skipped,
    \* write_rttm_file(rttm_path, labels): argument, locals, position and the
    \* file; then the segments load_rttm reads from that file and the labels
    \* get_labels expands them to
    wr_labels, wr_pc, cp_inds, wr_i, rttm_file, rt_segs, rt_labels,
    \* VB_diarization(X, ..., maxIters, epsilon, ...): the iteration budget, the
    \* number of completed iterations, the iteration that computed the current
    \* q and sp, the trace of the auxiliary function, the position, and what
    \* the call returned
    maxIters, ii, q_iter, L, eng_pc, eng_ret,
    \* score_recordings(recordings, metrics, domains, n_jobs): the URIs of the
    \* recordings, the domains, the number of worker processes, the position;
    \* the pool: the next task to hand out, the task each worker is at, the
    \* results sent back; the parent: the results read from imap, the mapping
    \* results, and per_domain_metrics
    sc_recordings, domains, n_jobs, sc_pc, task_next, worker, sent, n_read,
    results, per_domain_metrics,
    \* the HMM of the engine: --minDur, the speaker of each (downsampled) frame
    \* of a state path so far, and the sub-state of its speaker's chain the path is at
    minDur, state_path, chain_pos,
    \* sparsification: one row of q, --sparsityThr, the row after thresholding,
    \* the label decoded from it, and the position
    q_row, sparsityThr, q_sparse, sparse_label, thr_pc,
    \* prepare_sad_targets, for one line of utt2num_frames: the frame count, the
    \* speech segments and the annotated segments read for the recordings,
    \* whether --annotated-segments is given, --subsampling-factor, the locals
    \* of the loop body, the matrix written to the archive, and the position
    tg_n_frames, speech_segments, annotated_file, annotated_segments, subsampling_factor, targets, is_scored, targets_onehot, targets_sub, archive, tg_pc,
    \* make_data_dir: the number of lines of each recording's label file, the
    \* list load_recordings returned, the segments read so far per recording,
    \* the recording and line read_label_file is at, the lines of utt2spk, and
    \* the position
    lab_files, md_recordings, md_segments, md_rec, md_n, utt2spk, md_pc

labelVars == <<segs, n_frames, n_speakers, speaker_dict, ref, gl_pc, seg_idx,
               segs_in, returned>>

mainVars == <<frame_counts, max_speakers, utt_order, initialize, rng, q, pc,
              error_in, loading, lines_read,
              line, outcome, warned, recordings, rec_idx, init_labels, mask,
              q_out, predicted_labels, outputs, engine_calls, skipped>>

rttmVars == <<wr_labels, wr_pc, cp_inds, wr_i, rttm_file, rt_segs, rt_labels>>

engVars == <<maxIters, ii, q_iter, L, eng_pc, eng_ret>>

scoreVars == <<sc_recordings, domains, n_jobs, sc_pc, task_next, worker, sent,
               n_read, results, per_domain_metrics>>

hmmVars == <<minDur, state_path, chain_pos>>

sparseVars == <<q_row, sparsityThr, q_sparse, sparse_label, thr_pc>>

targetsVars == <<tg_n_frames, speech_segments, annotated_file, annotated_segments, subsampling_factor, targets, is_scored, targets_onehot, targets_sub, archive, tg_pc>>

dataDirVars == <<lab_files, md_recordings, md_segments, md_rec, md_n, utt2spk, md_pc>>

vars == <<labelVars, mainVars, rttmVars, engVars, scoreVars, hmmVars,
          sparseVars, targetsVars, dataDirVars>>

\* The variables that the steps of get_labels, of main and of write_rttm_file
\* leave alone.
nonLabelVars == <<mainVars, rttmVars, engVars, scoreVars, hmmVars,
                  sparseVars, targetsVars, dataDirVars>>
nonMainVars == <<labelVars, rttmVars, engVars, scoreVars, hmmVars,
                 sparseVars, targetsVars, dataDirVars>>
nonRttmVars == <<labelVars, mainVars, engVars, scoreVars, hmmVars,
                 sparseVars, targetsVars, dataDirVars>>
nonEngVars == <<labelVars, mainVars, rttmVars, scoreVars, hmmVars,
                sparseVars, targetsVars, dataDirVars>>
nonScoreVars == <<labelVars, mainVars, rttmVars, engVars, hmmVars,
                  sparseVars, targetsVars, dataDirVars>>
nonHmmVars == <<labelVars, mainVars, rttmVars, engVars, scoreVars,
                sparseVars, targetsVars, dataDirVars>>
nonSparseVars == <<labelVars, mainVars, rttmVars, engVars, scoreVars,
                   hmmVars, targetsVars, dataDirVars>>
nonTargetsVars == <<labelVars, mainVars, rttmVars, engVars, scoreVars,
                    hmmVars, sparseVars, dataDirVars>>
nonDataDirVars == <<labelVars, mainVars, rttmVars, engVars, scoreVars,
                    hmmVars, sparseVars, targetsVars>>

\* ------------------------------------------------------------- get_labels
\* A Segment of the dataclass; onset and offset are frame indices.
Seg(rid, on, off, spk) ==
    [recording_id |-> rid, onset |-> on, offset |-> off, speaker_id |-> spk]

\* np.zeros(n, dtype=np.int32)
Zeros(n) == [f \in 1..n |-> 0]

\* speaker_dict = {}
EmptyDict == [k \in {} |-> 0]

\* n_speakers = 0 at the start of every call (mutant: the counter of the
\* previous call is kept).
StaleSpeakerCount == n_speakers
FreshSpeakerCount == 0

\* Mutant of the first loop: the "continue" for a known speaker id is lost, so
\* every segment gives its speaker a new integer.
MapSpeakerNoSkip(st, seg) ==
    [n_speakers |-> st.n_speakers + 1,
     speaker_dict |-> [k \in DOMAIN st.speaker_dict \cup {seg.speaker_id} |->
                          IF k = seg.speaker_id THEN (st.n_speakers + 1) + 1
                          ELSE st.speaker_dict[k]]]

\* One pass of the first loop: a speaker id not seen before gets the next
\* integer > 1.
MapSpeaker(st, seg) ==
    IF seg.speaker_id \in DOMAIN st.speaker_dict
    THEN st
    ELSE [n_speakers |-> st.n_speakers + 1,
          speaker_dict |-> st.speaker_dict @@
                           (seg.speaker_id :> (st.n_speakers + 1) + 1)]

\* Mutants of the body of the inner loop: an overlap frame is overwritten by
\* the next speaker; a frame is overwritten whatever it holds.
LabelFrameUnOverlap(cur, speaker_label) ==
    IF cur = speaker_label THEN cur
    ELSE IF cur <= 1 THEN speaker_label
    ELSE 1
LabelFrameOverwrite(cur, speaker_label) == speaker_label

\* The body of the inner loop: the new value of ref[ind].
LabelFrame(cur, speaker_label) ==
    IF cur = speaker_label THEN cur
    ELSE IF cur = 0 THEN speaker_label
    ELSE 1

\* One pass of the second loop: every frame of range(onset, offset+1).
LabelSegment(r, seg, speaker_label) ==
    [i \in DOMAIN r |->
        IF seg.onset <= i - 1 /\ i - 1 <= seg.offset
        THEN LabelFrame(r[i], speaker_label)
        ELSE r[i]]

RECURSIVE InduceSpeakerDict(_, _)
InduceSpeakerDict(ss, st) ==
    IF ss = <<>> THEN st
    ELSE InduceSpeakerDict(Tail(ss), MapSpeaker(st, Head(ss)))

RECURSIVE LabelSegments(_, _, _)
LabelSegments(ss, d, r) ==
    IF ss = <<>> THEN r
    ELSE LabelSegments(Tail(ss), d,
                       LabelSegment(r, Head(ss), d[Head(ss).speaker_id]))

\* get_labels as a function of its arguments (the two loops run to the end).
GetLabels(ss, n) ==
    LabelSegments(ss,
                  InduceSpeakerDict(ss, [n_speakers |-> FreshSpeakerCount,
                                         speaker_dict |-> EmptyDict]).speaker_dict,
                  Zeros(n))

\* -------------------------------------------------------------- load_rttm
\* The recordings utt2num_frames lists.
RecIds == {"rec1", "rec2"}

\* The recordings utt2num_frames may list, in the order of its lines: none,
\* one or both.
UttOrders == {o \in UNION {[1..n -> RecIds] : n \in 0..Cardinality(RecIds)} :
                 \A i, j \in DOMAIN o : i # j => o[i] # o[j]}

\* Position of a recording id in the order of Python's str comparison.
RecIdRank(r) == CASE r = "rec1" -> 1 [] r = "rec2" -> 2 [] r = "recX" -> 3

\* sorted(ids)
RECURSIVE Sorted(_)
Sorted(ids) ==
    IF ids = {} THEN <<>>
    ELSE LET lo == CHOOSE r \in ids :
                       \A u \in ids : RecIdRank(r) <= RecIdRank(u)
         IN <<lo>> \o Sorted(ids \ {lo})

\* Mutant of recording_ids: the keys in the order of the file.
FileOrderIds == utt_order

\* recording_ids = sorted(frame_counts.keys()): the target recordings.
recording_ids == Sorted(DOMAIN frame_counts)

\* The ids of the list target_rec_ids (= recording_ids).
TargetRecIds == DOMAIN frame_counts

\* A recording of the RTTM file that utt2num_frames does not list.
OtherRecIds == {"recX"}

\* Onsets and durations (fields 3 and 4) of the lines of the RTTM file, in
\* ticks: negative values, values inside a frame and values past the end of
\* the longest recording are among them.
OnsetTicks == (0 - step)..(MaxRecFrames * step)
DurTicks == (0 - step)..(MaxRecFrames * step)

\* The fields of a line that load_rttm reads.
Lines ==
    [recording_id : RecIds \cup OtherRecIds, onset : OnsetTicks,
     dur : DurTicks, speaker_id : Speakers]

\* No line read (yet).
NoLine == [recording_id |-> "", onset |-> 0, dur |-> 0, speaker_id |-> ""]

\* Mutant of int(x/step): rounding down instead of towards zero.
FloorFrames(t) == t \div step

\* int(t/step): the quotient truncated towards zero.
IntFrames(t) == IF t >= 0 THEN t \div step ELSE 0 - ((0 - t) \div step)

\* Mutant of the clamping: the offset is set to the frame count.
ClampOffsetToLength(offset_frames, n) ==
    IF offset_frames >= n THEN n ELSE offset_frames

\* offset_frames after "if offset_frames >= n_frames".
ClampOffset(offset_frames, n) ==
    IF offset_frames >= n THEN n - 1 ELSE offset_frames

\* Mutant of the boundary test: the onset is only compared to the offset.
ImpossibleBoundariesNoSign(onset_frames, offset_frames) ==
    ~(onset_frames <= offset_frames)

\* not 0 <= onset_frames <= offset_frames
ImpossibleBoundaries(onset_frames, offset_frames) ==
    ~(0 <= onset_frames /\ onset_frames <= offset_frames)

\* Mutant of the loop body: a turn that extends past the end of the recording
\* is dropped instead of clamped.
LoadLineResultDropsPastEnd(ln, fc) ==
    IF TargetRecIds # {} /\ ln.recording_id \notin TargetRecIds
    THEN [outcome |-> "skipped", warned |-> FALSE, seg |-> <<>>]
    ELSE IF ln.recording_id \notin DOMAIN fc
    THEN [outcome |-> "key_error", warned |-> FALSE, seg |-> <<>>]
    ELSE LET onset_frames == IntFrames(ln.onset)
             offset_frames == IntFrames(ln.onset + ln.dur)
             n == fc[ln.recording_id]
         IN IF offset_frames >= n
            THEN [outcome |-> "skipped", warned |-> TRUE, seg |-> <<>>]
            ELSE IF ImpossibleBoundaries(onset_frames, offset_frames)
            THEN [outcome |-> "raised", warned |-> FALSE, seg |-> <<>>]
            ELSE [outcome |-> "appended", warned |-> FALSE,
                  seg |-> <<Seg(ln.recording_id, onset_frames, offset_frames,
                                ln.speaker_id)>>]

\* The body of the loop of load_rttm for one line: what becomes of the line,
\* whether the warning is printed, and the segment appended (if any).  The
\* test "if target_rec_ids and ..." skips nothing when the list is empty;
\* frame_counts[recording_id] raises KeyError for an id it does not hold.
LoadLineResult(ln, fc) ==
    IF TargetRecIds # {} /\ ln.recording_id \notin TargetRecIds
    THEN [outcome |-> "skipped", warned |-> FALSE, seg |-> <<>>]
    ELSE IF ln.recording_id \notin DOMAIN fc
    THEN [outcome |-> "key_error", warned |-> FALSE, seg |-> <<>>]
    ELSE LET onset_frames == IntFrames(ln.onset)
             offset_frames == IntFrames(ln.onset + ln.dur)
             n == fc[ln.recording_id]
             clamped == ClampOffset(offset_frames, n)
         IN IF ImpossibleBoundaries(onset_frames, clamped)
            THEN [outcome |-> "raised", warned |-> offset_frames >= n,
                  seg |-> <<>>]
            ELSE [outcome |-> "appended", warned |-> offset_frames >= n,
                  seg |-> <<Seg(ln.recording_id, onset_frames, clamped,
                                ln.speaker_id)>>]

\* recordings[recording_id] of a defaultdict(list).
SegsOf(recs, rid) == IF rid \in DOMAIN recs THEN recs[rid] ELSE <<>>

\* recordings[recording_id].append(seg)
AppendSeg(recs, rid, seg) ==
    [r \in DOMAIN recs \cup {rid} |->
        IF r = rid THEN Append(SegsOf(recs, rid), seg) ELSE recs[r]]

\* ------------------------------------------------------------------- main
\* Values of --max-speakers.
SpeakerCounts == {1, 2}

\* --seed (the default).
seed == 1036527419

\* State of NumPy's global random generator: the stream it draws from and the
\* number of values drawn so far.  Until np.random.seed is called the stream
\* comes from the entropy of the operating system.
Unseeded == [stream |-> <<"entropy", 0>>, pos |-> 0]

\* Mutant of the seeding: the generator is left as it was.
SeedIgnored(s) == Unseeded

\* np.random.seed(s)
SeedState(s) == [stream |-> <<"seed", s>>, pos |-> 0]

\* q = None (random initialization), also the value of q before the loop.
NoPosteriors == <<>>

\* VB_diarization.frame_labels2posterior_mx(labels, S): one row per frame,
\* 1 in the column of the frame's label (0-based) and 0 elsewhere.
OneHot(labels, S) ==
    [t \in 1..Len(labels) |->
        [k \in 1..S |-> IF k = labels[t] + 1 THEN 1 ELSE 0]]

\* Values the engine draws from the global generator for the random
\* initialization of q: one per entry of the T x S matrix.
RandomDraws(T, S) == T * S

\* Entries of the posterior matrix the engine returns (unnormalised weights).
QValues == {0, 1}

\* mask = (init_labels >= 2)
Mask(labels) == [i \in DOMAIN labels |-> labels[i] >= 2]

\* Number of frames of the mask that are kept: len(X_masked).
MaskedCount(m) == Cardinality({i \in DOMAIN m : m[i]})

\* Row of X[mask] (1-based) that frame i (1-based, masked in) goes to.
MaskedRow(m, i) == Cardinality({j \in 1..i : m[j]})

\* init_labels[mask] - 2
InitLabelsMasked(labels) ==
    LET m == Mask(labels)
    IN [t \in 1..MaskedCount(m) |->
           labels[CHOOSE i \in DOMAIN m : m[i] /\ MaskedRow(m, i) = t] - 2]

\* print_diagnostics(labels): labels.max() raises ValueError on an empty array.
PrintDiagnosticsRaises(labels) == Len(labels) = 0

\* Mutant of np.argmax: the last maximum instead of the first.
ArgMaxLast(row) ==
    (CHOOSE s \in DOMAIN row :
        /\ \A u \in DOMAIN row : row[u] <= row[s]
        /\ \A u \in DOMAIN row : u > s => row[u] < row[s]) - 1

\* np.argmax of one row: the 0-based index of the first maximum.
ArgMax(row) ==
    (CHOOSE s \in DOMAIN row :
        /\ \A u \in DOMAIN row : row[u] <= row[s]
        /\ \A u \in DOMAIN row : u < s => row[u] < row[s]) - 1

\* Mutants of the reconstruction: the masked-out frames keep their initial
\* label; the row of q is taken at the frame index.
ReconstructKeepMaskedOut(m, post, labels) ==
    [i \in DOMAIN m |->
        IF m[i] THEN ArgMax(post[MaskedRow(m, i)]) + 2 ELSE labels[i]]
ReconstructNoShift(m, post, labels) ==
    [i \in DOMAIN m |-> IF m[i] THEN ArgMax(post[MaskedRow(m, i)]) ELSE 0]

\* predicted_labels: zeros(len(mask)) with argmax(q_out, 1) + 2 on the mask.
Reconstruct(m, post, labels) ==
    [i \in DOMAIN m |-> IF m[i] THEN ArgMax(post[MaskedRow(m, i)]) + 2 ELSE 0]

\* -------------------------------------------------------- write_rttm_file
\* np.diff(labels, prepend=-999, append=-999) != 0, then np.nonzero: the
\* indices 0..len(labels) at which the padded array changes.
ChangePoints(labels) ==
    LET padded == <<-999>> \o labels \o <<-999>>
    IN {i \in 0..Len(labels) : padded[i+2] - padded[i+1] # 0}

\* np.nonzero(is_cp)[0]: the changepoints in ascending order.
RECURSIVE Ascending(_)
Ascending(S) ==
    IF S = {} THEN <<>>
    ELSE LET lo == CHOOSE c \in S : \A d \in S : c <= d
         IN <<lo>> \o Ascending(S \ {lo})

\* Mutant of the changepoints: the array is not padded at its two ends.
CpIndsUnpadded(labels) ==
    Ascending({i \in 1..(Len(labels) - 1) : labels[i+1] - labels[i] # 0})

\* cp_inds
CpInds(labels) == Ascending(ChangePoints(labels))

\* f'{x:.2f}' of a time of t ticks: the number of hundredths of a second that
\* is printed.  Every time written is a multiple of step, that is, of 2 ticks;
\* a time of an odd number of ticks would be a tie, printed rounded up here.
Fixed2(t) == (t + 1) \div 2

\* float(field) of a field that prints h hundredths of a second, in ticks.
ParseFixed2(h) == h * 2

\* f'speaker{label}', field 7 of the line.
SpeakerTag(label) == <<"speaker", label>>

\* Mutant of the loop body: the duration counts one frame more.
TurnLineInclusive(rid, labels, bi, ei) ==
    LET label == labels[bi + 1]
    IN IF label < 2 THEN <<>>
       ELSE <<[recording_id |-> rid, onset |-> Fixed2(bi * step),
               duration |-> Fixed2((ei - bi + 2) * step),
               speaker |-> SpeakerTag(label)]>>

\* The body of the loop over zip(bis, eis): the line written for the run of
\* frames bi..ei (none if its label is < 2), with the fields as printed.
TurnLine(rid, labels, bi, ei) ==
    LET label == labels[bi + 1]
        n == ei - bi + 1
        duration == n * step
        onset == bi * step
    IN IF label < 2 THEN <<>>
       ELSE <<[recording_id |-> rid, onset |-> Fixed2(onset),
               duration |-> Fixed2(duration), speaker |-> SpeakerTag(label)]>>

\* The lines written from pair i of zip(bis, eis) on, bis = cp_inds[:-1] and
\* eis = cp_inds[1:] - 1.
RECURSIVE TurnsFrom(_, _, _, _)
TurnsFrom(rid, labels, cps, i) ==
    IF i >= Len(cps) THEN <<>>
    ELSE TurnLine(rid, labels, cps[i], cps[i+1] - 1)
         \o TurnsFrom(rid, labels, cps, i + 1)

\* The content of the file write_rttm_file(<rid>.rttm, labels) leaves.
WriteRttmFile(rid, labels) == TurnsFrom(rid, labels, CpInds(labels), 1)

\* The variables of main while another function is checked on its own.
MainIdle ==
    /\ frame_counts = [r \in RecIds |-> 0]
    /\ max_speakers = 1
    /\ utt_order = Sorted(RecIds)
    /\ initialize = FALSE
    /\ rng = Unseeded
    /\ q = NoPosteriors
    /\ pc = "idle"
    /\ error_in = ""
    /\ loading = EmptyDict
    /\ lines_read = 0
    /\ line = NoLine
    /\ outcome = ""
    /\ warned = FALSE
    /\ recordings = EmptyDict
    /\ rec_idx = 0
    /\ init_labels = <<>>
    /\ mask = <<>>
    /\ q_out = <<>>
    /\ predicted_labels = <<>>
    /\ outputs = EmptyDict
    /\ engine_calls = {}
    /\ skipped = {}

\* The variables of write_rttm_file while another function is checked.
RttmIdle ==
    /\ wr_labels = <<>>
    /\ wr_pc = "idle"
    /\ cp_inds = <<>>
    /\ wr_i = 0
    /\ rttm_file = <<>>
    /\ rt_segs = <<>>
    /\ rt_labels = <<>>

\* Nothing returned (yet) by the engine.
NoReturn == [q |-> 0, L |-> <<>>]

\* The variables of the engine's loop while another function is checked.
EngIdle ==
    /\ maxIters = 0
    /\ ii = 0
    /\ q_iter = 0
    /\ L = <<>>
    /\ eng_pc = "idle"
    /\ eng_ret = NoReturn

\* The variables of score_recordings while another function is checked.
ScoreIdle ==
    /\ sc_recordings = <<>>
    /\ domains = EmptyDict
    /\ n_jobs = 1
    /\ sc_pc = "idle"
    /\ task_next = 0
    /\ worker = <<>>
    /\ sent = EmptyDict
    /\ n_read = 0
    /\ results = EmptyDict
    /\ per_domain_metrics = EmptyDict

\* The variables of the engine's HMM while another function is checked.
HmmIdle ==
    /\ minDur = 1
    /\ state_path = <<>>
    /\ chain_pos = 0

\* The variables of the sparsification while another function is checked.
SparseIdle ==
    /\ q_row = <<>>
    /\ sparsityThr = 0
    /\ q_sparse = <<>>
    /\ sparse_label = 0
    /\ thr_pc = "idle"

\* The variables of prepare_sad_targets while another function is checked.
TargetsIdle ==
    /\ tg_n_frames = 0
    /\ speech_segments = EmptyDict
    /\ annotated_file = FALSE
    /\ annotated_segments = EmptyDict
    /\ subsampling_factor = 1
    /\ targets = <<>>
    /\ is_scored = <<>>
    /\ targets_onehot = <<>>
    /\ targets_sub = <<>>
    /\ archive = EmptyDict
    /\ tg_pc = "idle"

\* The variables of make_data_dir while another function is checked.
DataDirIdle ==
    /\ lab_files = EmptyDict
    /\ md_recordings = <<>>
    /\ md_segments = EmptyDict
    /\ md_rec = 0
    /\ md_n = 0
    /\ utt2spk = <<>>
    /\ md_pc = "idle"

\* Segment lists as load_rttm returns them: 0 <= onset <= offset < n.
ValidSegments(rid, n) ==
    {s \in [recording_id : {rid}, onset : 0..(n-1), offset : 0..(n-1),
            speaker_id : Speakers] : s.onset <= s.offset}

SegLists(rid, n, maxLen) ==
    UNION {[1..k -> ValidSegments(rid, n)] : k \in 0..maxLen}

LabelsInit ==
    /\ n_frames \in 0..MaxFrames
    /\ segs \in SegLists("rec1", n_frames, MaxSegs)
    /\ segs_in = segs
    /\ n_speakers = 0
    /\ speaker_dict = EmptyDict
    /\ ref = <<>>
    /\ gl_pc = "idle"
    /\ seg_idx = 0
    /\ returned = <<>>
    /\ MainIdle
    /\ RttmIdle
    /\ EngIdle
    /\ ScoreIdle
    /\ HmmIdle
    /\ SparseIdle
    /\ TargetsIdle
    /\ DataDirIdle

\* A call of get_labels: its locals are created anew.
GetLabelsCall ==
    /\ gl_pc = "idle"
    /\ Len(returned) < MaxCalls
    /\ n_speakers' = FreshSpeakerCount
    /\ speaker_dict' = EmptyDict
    /\ ref' = <<>>
    /\ seg_idx' = 1
    /\ gl_pc' = "map"
    /\ UNCHANGED <<segs, n_frames, segs_in, returned>>
    /\ UNCHANGED nonLabelVars

\* First loop, one segment.
GetLabelsMapSpeaker ==
    /\ gl_pc = "map"
    /\ seg_idx <= Len(segs)
    /\ LET st == MapSpeaker([n_speakers |-> n_speakers,
                             speaker_dict |-> speaker_dict], segs[seg_idx])
       IN /\ n_speakers' = st.n_speakers
          /\ speaker_dict' = st.speaker_dict
    /\ seg_idx' = seg_idx + 1
    /\ UNCHANGED <<segs, n_frames, ref, gl_pc, segs_in, returned>>
    /\ UNCHANGED nonLabelVars

\* ref = np.zeros(n_frames)
GetLabelsAllocate ==
    /\ gl_pc = "map"
    /\ seg_idx > Len(segs)
    /\ ref' = Zeros(n_frames)
    /\ seg_idx' = 1
    /\ gl_pc' = "label"
    /\ UNCHANGED <<segs, n_frames, n_speakers, speaker_dict, segs_in, returned>>
    /\ UNCHANGED nonLabelVars

\* Second loop, one segment.
GetLabelsLabelSegment ==
    /\ gl_pc = "label"
    /\ seg_idx <= Len(segs)
    /\ ref' = LabelSegment(ref, segs[seg_idx],
                           speaker_dict[segs[seg_idx].speaker_id])
    /\ seg_idx' = seg_idx + 1
    /\ UNCHANGED <<segs, n_frames, n_speakers, speaker_dict, gl_pc, segs_in,
                   returned>>
    /\ UNCHANGED nonLabelVars

\* return ref
GetLabelsReturn ==
    /\ gl_pc = "label"
    /\ seg_idx > Len(segs)
    /\ returned' = Append(returned, ref)
    /\ gl_pc' = "idle"
    /\ UNCHANGED <<segs, n_frames, n_speakers, speaker_dict, ref, seg_idx,
                   segs_in>>
    /\ UNCHANGED nonLabelVars

LabelsNext ==
    \/ GetLabelsCall
    \/ GetLabelsMapSpeaker
    \/ GetLabelsAllocate
    \/ GetLabelsLabelSegment
    \/ GetLabelsReturn

SpecLabels == LabelsInit /\ [][LabelsNext]_vars

\* The variables of get_labels while main runs (main calls GetLabels).
LabelsIdle ==
    /\ segs = <<>>
    /\ segs_in = <<>>
    /\ n_frames = 0
    /\ n_speakers = 0
    /\ speaker_dict = EmptyDict
    /\ ref = <<>>
    /\ gl_pc = "idle"
    /\ seg_idx = 0
    /\ returned = <<>>

\* ------------------------------------------------------------ main: steps
MainInit ==
    /\ utt_order \in UttOrders
    /\ frame_counts \in [{utt_order[i] : i \in DOMAIN utt_order} ->
                            0..MaxRecFrames]
    /\ max_speakers \in SpeakerCounts
    /\ initialize \in BOOLEAN
    /\ rng = Unseeded
    /\ q = NoPosteriors
    /\ pc = "start"
    /\ error_in = ""
    /\ loading = EmptyDict
    /\ lines_read = 0
    /\ line = NoLine
    /\ outcome = ""
    /\ warned = FALSE
    /\ recordings = EmptyDict
    /\ rec_idx = 0
    /\ init_labels = <<>>
    /\ mask = <<>>
    /\ q_out = <<>>
    /\ predicted_labels = <<>>
    /\ outputs = EmptyDict
    /\ engine_calls = {}
    /\ skipped = {}
    /\ LabelsIdle
    /\ RttmIdle
    /\ EngIdle
    /\ ScoreIdle
    /\ HmmIdle
    /\ SparseIdle
    /\ TargetsIdle
    /\ DataDirIdle

loopLocals == <<init_labels, mask, q_out, predicted_labels>>

\* np.random.seed(args.seed), before anything is loaded.
SeedRng ==
    /\ pc = "start"
    /\ rng' = SeedState(seed)
    /\ pc' = "load"
    /\ UNCHANGED <<frame_counts, max_speakers, utt_order, initialize, q,
                   error_in, loading, lines_read, line, outcome, warned,
                   recordings, rec_idx, loopLocals, outputs, engine_calls,
                   skipped>>
    /\ UNCHANGED nonMainVars

\* load_rttm reads one more line of the file.
LoadLine ==
    /\ pc = "load"
    /\ lines_read < MaxLines
    /\ \E ln \in Lines :
          LET res == LoadLineResult(ln, frame_counts)
          IN /\ line' = ln
             /\ outcome' = res.outcome
             /\ warned' = res.warned
             /\ loading' = IF res.outcome = "appended"
                           THEN AppendSeg(loading, ln.recording_id, res.seg[1])
                           ELSE loading
             /\ pc' = IF res.outcome \in {"raised", "key_error"}
                      THEN "error" ELSE "load"
             /\ error_in' = CASE res.outcome = "raised" -> "load_rttm"
                               [] res.outcome = "key_error" -> "frame_counts"
                               [] OTHER -> ""
    /\ lines_read' = lines_read + 1
    /\ UNCHANGED <<frame_counts, max_speakers, utt_order, initialize, rng, q,
                   recordings, rec_idx, loopLocals,
                   outputs, engine_calls, skipped>>
    /\ UNCHANGED nonMainVars

\* End of the file: load_rttm returns its mapping and main enters its loop.
LoadReturn ==
    /\ pc = "load"
    /\ recordings' = loading
    /\ line' = NoLine
    /\ outcome' = ""
    /\ warned' = FALSE
    /\ rec_idx' = 1
    /\ pc' = "labels"
    /\ UNCHANGED <<frame_counts, max_speakers, utt_order, initialize, rng, q,
                   error_in, loading, lines_read,
                   loopLocals, outputs, engine_calls, skipped>>
    /\ UNCHANGED nonMainVars

\* The recording the loop of main is at.
recording_id == recording_ids[rec_idx]

\* init_labels = get_labels(recordings[recording_id], ...), then
\* print_diagnostics(init_labels).  recordings is a defaultdict: looking up a
\* recording without segments adds it with an empty list.
InitialLabeling ==
    /\ pc = "labels"
    /\ rec_idx <= Len(recording_ids)
    /\ LET labels == GetLabels(SegsOf(recordings, recording_id),
                               frame_counts[recording_id])
       IN /\ init_labels' = labels
          /\ recordings' = [r \in DOMAIN recordings \cup {recording_id} |->
                               SegsOf(recordings, r)]
          /\ IF PrintDiagnosticsRaises(labels)
             THEN pc' = "error" /\ error_in' = "print_diagnostics"
             ELSE pc' = "mask" /\ error_in' = error_in
    /\ UNCHANGED <<frame_counts, max_speakers, utt_order, initialize, rng, q,
                   loading, lines_read, line,
                   outcome, warned, rec_idx, mask, q_out, predicted_labels,
                   outputs, engine_calls, skipped>>
    /\ UNCHANGED nonMainVars

\* mask = (init_labels >= 2), X_masked = X[mask], then the test
\* "if len(init_labels) == 0" that skips the recording with a warning.  The
\* features are taken to exist for the recording, with one row per frame.
MaskFrames ==
    /\ pc = "mask"
    /\ mask' = Mask(init_labels)
    /\ IF Len(init_labels) = 0
       THEN /\ skipped' = skipped \cup {recording_id}
            /\ rec_idx' = rec_idx + 1
            /\ pc' = "labels"
       ELSE /\ skipped' = skipped
            /\ rec_idx' = rec_idx
            /\ pc' = "qinit"
    /\ UNCHANGED <<frame_counts, max_speakers, utt_order, initialize, rng, q,
                   error_in, loading, lines_read,
                   line, outcome, warned, recordings, init_labels, q_out,
                   predicted_labels, outputs, engine_calls>>
    /\ UNCHANGED nonMainVars

\* The initial posteriors: with --initialize the one-hot encoding of
\* init_labels[mask] - 2, else None.  A label that has no column among the
\* max_speakers columns is outside what the encoding is described for: it
\* may raise or leave the row without a 1.
InitialPosterior ==
    /\ pc = "qinit"
    /\ IF initialize
       THEN LET labels == InitLabelsMasked(init_labels)
            IN \/ /\ q' = OneHot(labels, max_speakers)
                  /\ pc' = "engine"
                  /\ error_in' = error_in
               \/ /\ \E t \in DOMAIN labels : labels[t] >= max_speakers
                  /\ q' = q
                  /\ pc' = "error"
                  /\ error_in' = "frame_labels2posterior_mx"
       ELSE /\ q' = NoPosteriors
            /\ pc' = "engine"
            /\ error_in' = error_in
    /\ UNCHANGED <<frame_counts, max_speakers, utt_order, initialize, rng,
                   loading, lines_read, line, outcome, warned, recordings,
                   rec_idx, loopLocals, outputs, engine_calls, skipped>>
    /\ UNCHANGED nonMainVars

\* Posterior matrices of T rows and S columns.
Posteriors(T, S) == [1..T -> [1..S -> QValues]]

\* VB_diarization.VB_diarization(X_masked, ...): returns a posterior matrix
\* with one row per frame of X_masked and max_speakers columns.  Without any
\* frame the engine is outside its contract (T_masked >= 1): it may raise or
\* return an empty matrix.
CallEngine ==
    /\ pc = "engine"
    /\ engine_calls' = engine_calls \cup
           {[recording_id |-> recording_id, T |-> MaskedCount(mask),
             rng |-> rng]}
    /\ \/ /\ q_out' \in Posteriors(MaskedCount(mask), max_speakers)
          /\ rng' = IF initialize THEN rng
                    ELSE [rng EXCEPT !.pos =
                             @ + RandomDraws(MaskedCount(mask), max_speakers)]
          /\ pc' = "reconstruct"
          /\ error_in' = error_in
       \/ /\ MaskedCount(mask) = 0
          /\ q_out' = q_out
          /\ rng' = rng
          /\ pc' = "error"
          /\ error_in' = "VB_diarization"
    /\ UNCHANGED <<frame_counts, max_speakers, utt_order, initialize, q,
                   loading, lines_read, line, outcome, warned, recordings,
                   rec_idx, init_labels, mask, predicted_labels, outputs,
                   skipped>>
    /\ UNCHANGED nonMainVars

\* predicted_labels from q_out and mask, then print_diagnostics.  The printing
\* of sp_out and L_out that follows is not modelled.
ReconstructLabels ==
    /\ pc = "reconstruct"
    /\ LET labels == Reconstruct(mask, q_out, init_labels)
       IN /\ predicted_labels' = labels
          /\ IF PrintDiagnosticsRaises(labels)
             THEN pc' = "error" /\ error_in' = "print_diagnostics"
             ELSE pc' = "write" /\ error_in' = error_in
    /\ UNCHANGED <<frame_counts, max_speakers, utt_order, initialize, rng, q,
                   loading, lines_read, line,
                   outcome, warned, recordings, rec_idx, init_labels, mask,
                   q_out, outputs, engine_calls, skipped>>
    /\ UNCHANGED nonMainVars

\* write_rttm_file(output_dir/per_file_rttm/<recording_id>.rttm, ...): the
\* file is opened for writing (and so exists) even when no turn is written.
WriteOutput ==
    /\ pc = "write"
    /\ outputs' = [r \in DOMAIN outputs \cup {recording_id} |->
                      IF r = recording_id
                      THEN WriteRttmFile(recording_id, predicted_labels)
                      ELSE outputs[r]]
    /\ rec_idx' = rec_idx + 1
    /\ pc' = "labels"
    /\ UNCHANGED <<frame_counts, max_speakers, utt_order, initialize, rng, q,
                   error_in, loading, lines_read,
                   line, outcome, warned, recordings, loopLocals, engine_calls,
                   skipped>>
    /\ UNCHANGED nonMainVars

\* The loop of main is over.
Finish ==
    /\ pc = "labels"
    /\ rec_idx > Len(recording_ids)
    /\ pc' = "done"
    /\ UNCHANGED <<frame_counts, max_speakers, utt_order, initialize, rng, q,
                   error_in, loading, lines_read,
                   line, outcome, warned, recordings, rec_idx, loopLocals,
                   outputs, engine_calls, skipped>>
    /\ UNCHANGED nonMainVars

MainNext ==
    \/ SeedRng
    \/ LoadLine
    \/ LoadReturn
    \/ InitialLabeling
    \/ MaskFrames
    \/ InitialPosterior
    \/ CallEngine
    \/ ReconstructLabels
    \/ WriteOutput
    \/ Finish

SpecMain == MainInit /\ [][MainNext]_vars

\* ------------------------------------------------- write_rttm_file: steps
\* Label arrays handed to write_rttm_file.
LabelArrays == UNION {[1..n -> 0..MaxLabel] : n \in 0..MaxTurnFrames}

\* The stem of rttm_path.
rttm_stem == "rec1"

RttmInit ==
    /\ wr_labels \in LabelArrays
    /\ wr_pc = "start"
    /\ cp_inds = <<>>
    /\ wr_i = 0
    /\ rttm_file = <<>>
    /\ rt_segs = <<>>
    /\ rt_labels = <<>>
    /\ LabelsIdle
    /\ MainIdle
    /\ EngIdle
    /\ ScoreIdle
    /\ HmmIdle
    /\ SparseIdle
    /\ TargetsIdle
    /\ DataDirIdle

\* The changepoints are computed and the file is opened for writing.
WriteOpen ==
    /\ wr_pc = "start"
    /\ cp_inds' = CpInds(wr_labels)
    /\ rttm_file' = <<>>
    /\ wr_i' = 1
    /\ wr_pc' = "loop"
    /\ UNCHANGED <<wr_labels, rt_segs, rt_labels>>
    /\ UNCHANGED nonRttmVars

\* One pass of the loop over zip(bis, eis).
WriteTurn ==
    /\ wr_pc = "loop"
    /\ wr_i < Len(cp_inds)
    /\ rttm_file' = rttm_file \o TurnLine(rttm_stem, wr_labels, cp_inds[wr_i],
                                          cp_inds[wr_i + 1] - 1)
    /\ wr_i' = wr_i + 1
    /\ UNCHANGED <<wr_labels, wr_pc, cp_inds, rt_segs, rt_labels>>
    /\ UNCHANGED nonRttmVars

\* The loop is over and the file is closed.
WriteClose ==
    /\ wr_pc = "loop"
    /\ wr_i >= Len(cp_inds)
    /\ wr_pc' = "closed"
    /\ UNCHANGED <<wr_labels, cp_inds, wr_i, rttm_file, rt_segs, rt_labels>>
    /\ UNCHANGED nonRttmVars

\* The fields of a line of the file as load_rttm parses them.
ParseLine(ln) ==
    [recording_id |-> ln.recording_id, onset |-> ParseFixed2(ln.onset),
     dur |-> ParseFixed2(ln.duration), speaker_id |-> ln.speaker]

\* load_rttm over the lines i.. of a file: the segments appended, or the
\* line at which it raises.
RECURSIVE LoadLines(_, _, _)
LoadLines(file, fc, i) ==
    IF i > Len(file) THEN [raised |-> FALSE, segs |-> <<>>]
    ELSE LET res == LoadLineResult(ParseLine(file[i]), fc)
             more == LoadLines(file, fc, i + 1)
         IN IF res.outcome = "raised" THEN [raised |-> TRUE, segs |-> <<>>]
            ELSE [raised |-> more.raised, segs |-> res.seg \o more.segs]

\* load_rttm reads the file back; the recording has as many frames as the
\* label array written.
ReadBack ==
    /\ wr_pc = "closed"
    /\ LET fc == [r \in TargetRecIds |-> Len(wr_labels)]
           res == LoadLines(rttm_file, fc, 1)
       IN /\ rt_segs' = res.segs
          /\ wr_pc' = IF res.raised THEN "error" ELSE "loaded"
    /\ UNCHANGED <<wr_labels, cp_inds, wr_i, rttm_file, rt_labels>>
    /\ UNCHANGED nonRttmVars

\* get_labels expands the segments read to a label array of the same length.
ReExpand ==
    /\ wr_pc = "loaded"
    /\ rt_labels' = GetLabels(rt_segs, Len(wr_labels))
    /\ wr_pc' = "expanded"
    /\ UNCHANGED <<wr_labels, cp_inds, wr_i, rttm_file, rt_segs>>
    /\ UNCHANGED nonRttmVars

RttmNext ==
    \/ WriteOpen
    \/ WriteTurn
    \/ WriteClose
    \/ ReadBack
    \/ ReExpand

SpecRttm == RttmInit /\ [][RttmNext]_vars

\* ------------------------------------------- VB_diarization: iteration loop
\* --epsilon; the values of the auxiliary function are counted in units of it.
epsilon == 1

\* Values of the auxiliary function.
AuxValues == 0..MaxAux

Abs(x) == IF x < 0 THEN 0 - x ELSE x

\* Mutant of the convergence test: the size of the change is compared,
\* whatever its sign.
ConvergedAbs(trace) ==
    Len(trace) >= 2
    /\ Abs(trace[Len(trace)] - trace[Len(trace) - 1]) < epsilon

\* The convergence test after an iteration has appended its value to the
\* trace, as --epsilon documents it: "Stop iterating if objective function
\* improvement is <EPS".  The improvement is the change from the previous
\* value (there is none to test after the first iteration).
Converged(trace) ==
    Len(trace) >= 2 /\ trace[Len(trace)] - trace[Len(trace) - 1] < epsilon

EngInit ==
    /\ maxIters \in 0..MaxIterBudget
    /\ ii = 0
    /\ q_iter = 0
    /\ L = <<>>
    /\ eng_pc = "loop"
    /\ eng_ret = NoReturn
    /\ LabelsIdle
    /\ MainIdle
    /\ RttmIdle
    /\ ScoreIdle
    /\ HmmIdle
    /\ SparseIdle
    /\ TargetsIdle
    /\ DataDirIdle

\* One iteration: q and sp are recomputed, the auxiliary function is computed
\* and appended to the trace, and the loop is left if the test succeeds.
EngineIterate ==
    /\ eng_pc = "loop"
    /\ ii < maxIters
    /\ \E aux \in AuxValues :
          /\ L' = Append(L, aux)
          /\ eng_pc' = IF Converged(Append(L, aux)) THEN "return" ELSE "loop"
    /\ q_iter' = ii + 1
    /\ ii' = ii + 1
    /\ UNCHANGED <<maxIters, eng_ret>>
    /\ UNCHANGED nonEngVars

\* The iteration budget is exhausted: the loop ends without an error.
EngineExhausted ==
    /\ eng_pc = "loop"
    /\ ii >= maxIters
    /\ eng_pc' = "return"
    /\ UNCHANGED <<maxIters, ii, q_iter, L, eng_ret>>
    /\ UNCHANGED nonEngVars

\* return q, sp, L
EngineReturn ==
    /\ eng_pc = "return"
    /\ eng_ret' = [q |-> q_iter, L |-> L]
    /\ eng_pc' = "returned"
    /\ UNCHANGED <<maxIters, ii, q_iter, L>>
    /\ UNCHANGED nonEngVars

EngNext ==
    \/ EngineIterate
    \/ EngineExhausted
    \/ EngineReturn

SpecEngine == EngInit /\ [][EngNext]_vars

\* The engine runs in the one thread of main: a step that can be taken is
\* taken.
SpecEngineFair == SpecEngine /\ WF_vars(EngNext)

\* ------------------------------------------- score_sad: score_recordings
\* URIs of recordings, names of the domains of the recordings table, names of
\* the metrics main passes.
Uris == {"u1", "u2"}
DomainNames == {"d1", "d2"}
MetricNames == {"dcf", "der"}

\* A metric as sum_metrics sees it: the per-recording results, the URIs seen
\* and the accumulated components (one number stands for them).
\* cls(): a metric that has accumulated nothing.
NewMetric == [results_ |-> <<>>, uris_ |-> {}, accumulated_ |-> 0]

\* The metrics argument: the instances main creates, nothing accumulated.
metrics == [mname \in MetricNames |-> NewMetric]

\* The components a metric computes for a recording (reference against
\* system speech within the scoring regions): a number per recording and
\* metric, chosen so that sums tell the sets of recordings apart.
Components(uri, mname) ==
    (IF uri = "u1" THEN 1 ELSE 2) * (IF mname = "dcf" THEN 1 ELSE 4)

\* metric(ref_speech, sys_speech, uem=annotated): the call accumulates the
\* components of the recording into the metric.
CallMetric(metric, uri, mname) ==
    [results_ |-> Append(metric.results_, uri),
     uris_ |-> metric.uris_ \cup {uri},
     accumulated_ |-> metric.accumulated_ + Components(uri, mname)]

\* _score_one_recording(recording, metrics), on the copy of metrics that was
\* unpickled with the task.
ScoreOneRecording(uri, ms) ==
    [mname \in MetricNames |-> CallMetric(ms[mname], uri, mname)]

\* sum_metrics(*ms) for a non-empty list ms.
RECURSIVE SumMetrics(_)
SumMetrics(ms) ==
    IF Len(ms) = 0 THEN NewMetric
    ELSE LET head == SumMetrics(SubSeq(ms, 1, Len(ms) - 1))
             metric == ms[Len(ms)]
         IN [results_ |-> head.results_ \o metric.results_,
             uris_ |-> head.uris_ \cup metric.uris_,
             accumulated_ |-> head.accumulated_ + metric.accumulated_]

\* metrics[0] of sum_metrics raises IndexError when no metric is passed.
SumMetricsRaises(ms) == Len(ms) = 0

\* sorted(domains[dname]) restricted to the URIs in results.
RECURSIVE SortedUris(_)
SortedUris(us) ==
    IF us = {} THEN <<>>
    ELSE IF "u1" \in us THEN <<"u1">> \o SortedUris(us \ {"u1"})
    ELSE LET u == CHOOSE v \in us : TRUE IN <<u>> \o SortedUris(us \ {u})

\* domain_results of a domain.
DomainResults(doms, res, dname) ==
    LET us == SortedUris(doms[dname] \cap DOMAIN res)
    IN [k \in 1..Len(us) |-> res[us[k]]]

\* Lists of recordings with distinct URIs, as annotations_to_recordings
\* builds them, and domains arguments.
RecordingLists ==
    {rs \in UNION {[1..n -> Uris] : n \in 0..Cardinality(Uris)} :
        \A i, j \in DOMAIN rs : i # j => rs[i] # rs[j]}
DomainTables == UNION {[D -> SUBSET Uris] : D \in SUBSET DomainNames}

ScoreInit ==
    /\ sc_recordings \in RecordingLists
    /\ domains \in DomainTables
    /\ n_jobs \in 1..MaxJobs
    /\ sc_pc = "start"
    /\ task_next = 0
    /\ worker = <<>>
    /\ sent = EmptyDict
    /\ n_read = 0
    /\ results = EmptyDict
    /\ per_domain_metrics = EmptyDict
    /\ LabelsIdle
    /\ MainIdle
    /\ RttmIdle
    /\ EngIdle
    /\ HmmIdle
    /\ SparseIdle
    /\ TargetsIdle
    /\ DataDirIdle

\* domains['OVERALL'] is set and the pool of n_jobs workers is created.
ScoreStart ==
    /\ sc_pc = "start"
    /\ domains' = [d \in DOMAIN domains \cup {"OVERALL"} |->
                      IF d = "OVERALL"
                      THEN {sc_recordings[i] : i \in DOMAIN sc_recordings}
                      ELSE domains[d]]
    /\ worker' = [w \in 1..n_jobs |-> 0]
    /\ task_next' = 1
    /\ sc_pc' = "pool"
    /\ UNCHANGED <<sc_recordings, n_jobs, sent, n_read, results,
                   per_domain_metrics>>
    /\ UNCHANGED nonScoreVars

\* An idle worker takes the next task of imap from the queue.
WorkerTake(w) ==
    /\ sc_pc = "pool"
    /\ worker[w] = 0
    /\ task_next <= Len(sc_recordings)
    /\ worker' = [worker EXCEPT ![w] = task_next]
    /\ task_next' = task_next + 1
    /\ UNCHANGED <<sc_recordings, domains, n_jobs, sc_pc, sent, n_read,
                   results, per_domain_metrics>>
    /\ UNCHANGED nonScoreVars

\* A worker scores the recording of its task on the metrics unpickled with
\* the task and sends the metrics back.
WorkerFinish(w) ==
    /\ sc_pc = "pool"
    /\ worker[w] # 0
    /\ sent' = [i \in DOMAIN sent \cup {worker[w]} |->
                   IF i = worker[w]
                   THEN ScoreOneRecording(sc_recordings[i], metrics)
                   ELSE sent[i]]
    /\ worker' = [worker EXCEPT ![w] = 0]
    /\ UNCHANGED <<sc_recordings, domains, n_jobs, sc_pc, task_next, n_read,
                   results, per_domain_metrics>>
    /\ UNCHANGED nonScoreVars

\* The parent reads the next result of imap, which yields them in the order
\* of the tasks: results[recording.uri] = result.
ReadResult ==
    /\ sc_pc = "pool"
    /\ n_read + 1 \in DOMAIN sent
    /\ LET uri == sc_recordings[n_read + 1]
       IN results' = [u \in DOMAIN results \cup {uri} |->
                         IF u = uri THEN sent[n_read + 1] ELSE results[u]]
    /\ n_read' = n_read + 1
    /\ UNCHANGED <<sc_recordings, domains, n_jobs, sc_pc, task_next, worker,
                   sent, per_domain_metrics>>
    /\ UNCHANGED nonScoreVars

\* All results are read: the pool is left, the results are aggregated by
\* domain and per_domain_metrics is returned, unless sum_metrics raises.
Aggregate ==
    /\ sc_pc = "pool"
    /\ n_read = Len(sc_recordings)
    /\ IF \E d \in DOMAIN domains :
             SumMetricsRaises(DomainResults(domains, results, d))
       THEN /\ sc_pc' = "raised"
            /\ per_domain_metrics' = per_domain_metrics
       ELSE /\ sc_pc' = "returned"
            /\ per_domain_metrics' =
                  [d \in DOMAIN domains |->
                      LET domain_results == DomainResults(domains, results, d)
                      IN [mname \in MetricNames |->
                             SumMetrics([k \in DOMAIN domain_results |->
                                            domain_results[k][mname]])]]
    /\ UNCHANGED <<sc_recordings, domains, n_jobs, task_next, worker, sent,
                   n_read, results>>
    /\ UNCHANGED nonScoreVars

ScoreNext ==
    \/ ScoreStart
    \/ \E w \in 1..MaxJobs : w <= n_jobs /\ WorkerTake(w)
    \/ \E w \in 1..MaxJobs : w <= n_jobs /\ WorkerFinish(w)
    \/ ReadResult
    \/ Aggregate

SpecScore == ScoreInit /\ [][ScoreNext]_vars

\* ------------------------------------------------------- claims: get_labels
\* Indices of the segments of the list that contain frame f.
Covering(f) ==
    {i \in 1..Len(segs) : segs[i].onset <= f /\ f <= segs[i].offset}

\* Speaker ids of the segments that contain frame f.
CoveringSpeakers(f) == {segs[i].speaker_id : i \in Covering(f)}

\* Speaker ids of the segment list.
SpeakerIds == {segs[i].speaker_id : i \in 1..Len(segs)}

\* i such that k is the i-th distinct speaker id met in the list.
AppearanceRank(k) ==
    LET first == CHOOSE i \in 1..Len(segs) :
                     /\ segs[i].speaker_id = k
                     /\ \A j \in 1..(i-1) : segs[j].speaker_id # k
    IN Cardinality({segs[j].speaker_id : j \in 1..first})

\* Scenario A of the specification: [50,70] and [60,90] of two speakers.
ScenarioA ==
    GetLabels(<<Seg("rec1", 50, 70, "A"), Seg("rec1", 60, 90, "B")>>, 91)

ScenarioAHolds ==
    /\ Len(ScenarioA) = 91
    /\ \A f \in 0..90 :
          ScenarioA[f+1] = (IF f < 50 THEN 0
                            ELSE IF f < 60 THEN 2
                            ELSE IF f <= 70 THEN 1
                            ELSE 3)

\* C2: in every array get_labels returns, a frame is 0 iff no segment contains
\* it, 1 iff segments of at least two speakers contain it, and speaker k's
\* integer iff it is covered and only by segments of k, whatever the order of
\* the segments; scenario A gives 1 on [60,70], the first speaker's label on
\* [50,59] and the second speaker's on [71,90].
C2_FrameLabels ==
    /\ \A c \in 1..Len(returned) : \A f \in 0..(n_frames - 1) :
          LET lab == returned[c][f+1]
              spk == CoveringSpeakers(f)
          IN /\ (lab = 0) <=> (spk = {})
             /\ (lab = 1) <=> (Cardinality(spk) >= 2)
             /\ \A k \in SpeakerIds :
                   (lab = AppearanceRank(k) + 1) <=> (spk = {k})
    /\ ScenarioAHolds

\* C2 witness: two segments of different speakers that partly overlap have been
\* labelled: 1 on the common frames, each speaker's label on its own frames.
C2_Witness ==
    /\ Len(returned) >= 1
    /\ \E i, j \in 1..Len(segs) :
          /\ segs[i].speaker_id # segs[j].speaker_id
          /\ segs[i].onset < segs[j].onset
          /\ segs[j].onset <= segs[i].offset
          /\ segs[i].offset < segs[j].offset
          /\ returned[1][segs[j].onset + 1] = 1
          /\ returned[1][segs[i].onset + 1] >= 2
          /\ returned[1][segs[j].offset + 1] >= 2
          /\ returned[1][segs[i].onset + 1] # returned[1][segs[j].offset + 1]

\* C3: while the second loop runs, a frame labelled 1 keeps label 1 when the
\* next segment is processed, and a frame carrying the label of the next
\* segment's speaker is left unchanged by it.
C3_OverlapIsFinal ==
    [][(gl_pc = "label" /\ gl_pc' = "label") =>
          \A i \in DOMAIN ref :
             /\ (ref[i] = 1) => (ref'[i] = 1)
             /\ (ref[i] = speaker_dict[segs[seg_idx].speaker_id])
                   => (ref'[i] = ref[i])]_vars

\* C3 witness: three segments A, B, A over a common frame have been processed
\* and the frame holds 1.
C3_Witness ==
    /\ gl_pc = "label"
    /\ seg_idx = 4
    /\ segs[1].speaker_id = segs[3].speaker_id
    /\ segs[1].speaker_id # segs[2].speaker_id
    /\ \E f \in 0..(n_frames - 1) :
          /\ Covering(f) = {1, 2, 3}
          /\ ref[f+1] = 1

\* Three speakers met in the order C, A, B (C twice).
ThreeSpeakerDict ==
    InduceSpeakerDict(<<Seg("rec1", 0, 1, "C"), Seg("rec1", 2, 2, "A"),
                        Seg("rec1", 3, 4, "C"), Seg("rec1", 5, 5, "B")>>,
                      [n_speakers |-> FreshSpeakerCount,
                       speaker_dict |-> EmptyDict]).speaker_dict

\* C4: once the first loop has run, the i-th distinct speaker id of the list
\* has the integer i+1, whatever the alphabetic order of the ids: speakers
\* met in the order C, A, B get 2, 3, 4.
C4_FirstAppearanceOrder ==
    /\ (gl_pc = "label") =>
          /\ DOMAIN speaker_dict = SpeakerIds
          /\ n_speakers = Cardinality(SpeakerIds)
          /\ \A k \in SpeakerIds : speaker_dict[k] = AppearanceRank(k) + 1
    /\ DOMAIN ThreeSpeakerDict = {"A", "B", "C"}
    /\ ThreeSpeakerDict["C"] = 2
    /\ ThreeSpeakerDict["A"] = 3
    /\ ThreeSpeakerDict["B"] = 4

\* C4 witness: "B" is met before "A" and gets the smaller integer.
C4_Witness ==
    /\ gl_pc = "label"
    /\ Len(segs) = 3
    /\ segs[1].speaker_id = "B"
    /\ segs[2].speaker_id = "B"
    /\ segs[3].speaker_id = "A"
    /\ speaker_dict["B"] = 2
    /\ speaker_dict["A"] = 3

\* C5: every call of get_labels on the same segment list and frame count
\* returns the same array, and the calls leave the segment list as it was.
C5_SameLabelsEveryCall ==
    /\ segs = segs_in
    /\ \A c \in 1..Len(returned) : returned[c] = returned[1]
    /\ (gl_pc = "idle" /\ Len(returned) >= 1) =>
           returned[Len(returned)] = ref

\* C5 witness: two calls have returned, with speaker and overlap labels.
C5_Witness ==
    /\ Len(returned) = 2
    /\ \E i, j \in 1..n_frames : returned[2][i] = 1 /\ returned[2][j] = 3

\* ------------------------------------------------------------ claims: main
\* The frames of the line read last, as load_rttm computes them.
LineOnsetFrame == IntFrames(line.onset)
LineOffsetFrame == IntFrames(line.onset + line.dur)
LineIsTarget == line # NoLine /\ line.recording_id \in TargetRecIds
LineFrameCount == frame_counts[line.recording_id]

\* The segment appended last to the list of the line's recording.
LastLoaded ==
    LET l == SegsOf(loading, line.recording_id) IN l[Len(l)]

\* Whether the loop of main has an initial labeling for its recording.
Labelled == pc \in {"mask", "qinit", "engine", "reconstruct", "write"}

\* Number of distinct speaker ids in the segments of recording r.
SpeakersPresent(r) ==
    Cardinality({SegsOf(recordings, r)[i].speaker_id :
                    i \in 1..Len(SegsOf(recordings, r))})

\* C1 as stated: the initial labeling has frame_counts[recording_id] labels,
\* each in {0, 1} or 2..S+1 with S = max_speakers.
C1_LabelsWithinMaxSpeakers ==
    Labelled =>
        /\ Len(init_labels) = frame_counts[recording_id]
        /\ \A i \in DOMAIN init_labels : init_labels[i] \in 0..(max_speakers + 1)

\* C1 amended: the initial labeling has frame_counts[recording_id] labels,
\* each in {0, 1} or 2..K+1 with K the number of distinct speaker ids of the
\* recording's segments; K, and so the labels, are not limited by max_speakers.
C1_LabelsWithinSpeakersPresent ==
    Labelled =>
        /\ Len(init_labels) = frame_counts[recording_id]
        /\ \A i \in DOMAIN init_labels :
              init_labels[i] \in 0..(SpeakersPresent(recording_id) + 1)

\* C1 witness: with max_speakers = 1 a recording of two speakers is labelled
\* and a frame holds the label 3.
C1_Witness ==
    /\ pc = "mask"
    /\ max_speakers = 1
    /\ Len(init_labels) = MaxRecFrames
    /\ \E i \in DOMAIN init_labels : init_labels[i] = 3

\* C6: every segment of the mapping load_rttm builds and returns lies in its
\* recording: 0 <= onset <= offset < frame_counts[recording_id].
C6_SegmentsWithinRecording ==
    \A recs \in {loading, recordings} : \A r \in DOMAIN recs :
       \A i \in 1..Len(recs[r]) :
          /\ recs[r][i].recording_id = r
          /\ r \in DOMAIN frame_counts
          /\ 0 <= recs[r][i].onset
          /\ recs[r][i].onset <= recs[r][i].offset
          /\ recs[r][i].offset < frame_counts[r]

\* C6 witness: load_rttm has returned two segments of one recording, the
\* second with its offset on the last frame, while the other recording has a
\* frame count of 0.
C6_Witness ==
    /\ pc = "labels"
    /\ DOMAIN frame_counts = RecIds
    /\ frame_counts["rec1"] = 0
    /\ "rec2" \in DOMAIN recordings
    /\ Len(recordings["rec2"]) = 2
    /\ recordings["rec2"][2].offset = frame_counts["rec2"] - 1

\* C7 as stated: a turn whose offset frame is at or past the frame count is
\* warned about, and is kept with offset n_frames - 1 if its onset frame
\* does not exceed that offset.
C7_ClampedTurnKept ==
    (LineIsTarget /\ LineOffsetFrame >= LineFrameCount) =>
        /\ warned
        /\ (LineOnsetFrame <= LineFrameCount - 1) =>
              /\ outcome = "appended"
              /\ pc # "error"
              /\ LastLoaded = Seg(line.recording_id, LineOnsetFrame,
                                  LineFrameCount - 1, line.speaker_id)

\* C7 amended: ... is kept with offset n_frames - 1 if its onset frame is
\* not negative and does not exceed that offset.
C7_ClampedTurnKeptIfOnsetInRange ==
    (LineIsTarget /\ LineOffsetFrame >= LineFrameCount) =>
        /\ warned
        /\ (0 <= LineOnsetFrame /\ LineOnsetFrame <= LineFrameCount - 1) =>
              /\ outcome = "appended"
              /\ pc # "error"
              /\ LastLoaded = Seg(line.recording_id, LineOnsetFrame,
                                  LineFrameCount - 1, line.speaker_id)

\* C7 witness: a turn that starts inside the recording and ends two frames
\* past its end has been read and kept.
C7_Witness ==
    /\ LineIsTarget
    /\ LineOnsetFrame = 1
    /\ LineOffsetFrame = LineFrameCount + 1
    /\ warned
    /\ outcome = "appended"
    /\ LastLoaded.offset = LineFrameCount - 1

\* The (clamped) offset frame a line is judged by; a recording without a frame
\* count has nothing to clamp to.
LineClampedOffset ==
    IF LineIsTarget /\ LineOffsetFrame >= LineFrameCount
    THEN LineFrameCount - 1
    ELSE LineOffsetFrame

\* The run has stopped in load_rttm: nothing was returned, resegmented or
\* written.
StoppedInLoad ==
    /\ pc = "error"
    /\ error_in = "load_rttm"
    /\ outcome = "raised"
    /\ recordings = EmptyDict
    /\ rec_idx = 0
    /\ engine_calls = {}
    /\ DOMAIN outputs = {}

Handled ==
    {recording_ids[i] : i \in 1..(rec_idx - 1)} \cup
    (IF rec_idx \in DOMAIN recording_ids
        /\ pc \in {"engine", "reconstruct", "write"}
     THEN {recording_ids[rec_idx]} ELSE {})

\* Recording r has no frame with initial label >= 2.
NoMaskedInFrame(r) ==
    LET labels == GetLabels(SegsOf(recordings, r), frame_counts[r])
    IN \A i \in DOMAIN labels : labels[i] < 2

\* C9 as stated: a recording without masked-in frames is skipped with the
\* warning: the engine is not called for it (so every engine call has
\* T_masked >= 1) and no output file is written for it.
C9_DegenerateRecordingSkipped ==
    /\ \A r \in Handled :
          NoMaskedInFrame(r) =>
              /\ r \in skipped
              /\ \A c \in engine_calls : c.recording_id # r
              /\ r \notin DOMAIN outputs
    /\ \A c \in engine_calls : c.T >= 1

\* Rank (1-based) of frame i among the frames with initial label >= 2.
RankAmongMaskedIn(i) ==
    Cardinality({j \in 1..i : init_labels[j] >= 2})

\* C10: the reconstructed labeling has the length of the recording; a frame
\* with initial label >= 2 gets s + 2 where s is the (first) column that
\* maximises the row of q_out at the frame's rank among the masked-in frames;
\* every other frame gets 0; the label 1 does not appear.
C10_Reconstruction ==
    (pc = "write") =>
        /\ Len(predicted_labels) = frame_counts[recording_id]
        /\ Len(q_out) = Cardinality({i \in DOMAIN init_labels : init_labels[i] >= 2})
        /\ \A i \in DOMAIN predicted_labels :
              /\ predicted_labels[i] # 1
              /\ (init_labels[i] < 2) => (predicted_labels[i] = 0)
              /\ (init_labels[i] >= 2) =>
                    LET row == q_out[RankAmongMaskedIn(i)]
                        s == predicted_labels[i] - 2
                    IN /\ s + 1 \in DOMAIN row
                       /\ \A u \in DOMAIN row : row[u] <= row[s + 1]
                       /\ \A u \in 1..s : row[u] < row[s + 1]

\* C10 witness: an overlap frame followed by a frame of one speaker, whose row
\* of q_out (the first) has its maximum in the second column.
C10_Witness ==
    /\ pc = "write"
    /\ init_labels = <<1, 2>>
    /\ q_out = <<<<0, 1>>>>
    /\ predicted_labels = <<0, 3>>

\* -------------------------------------------------- claims: write_rttm_file
\* The maximal runs of a constant label >= 2 of the array written: pairs of
\* the first and the last frame (0-based) of the run.
MaximalRuns ==
    LET n == Len(wr_labels)
    IN {r \in (0..(n-1)) \X (0..(n-1)) :
           /\ r[1] <= r[2]
           /\ wr_labels[r[1] + 1] >= 2
           /\ \A f \in r[1]..r[2] : wr_labels[f + 1] = wr_labels[r[1] + 1]
           /\ r[1] = 0 \/ wr_labels[r[1]] # wr_labels[r[1] + 1]
           /\ r[2] = n - 1 \/ wr_labels[r[2] + 2] # wr_labels[r[2] + 1]}

\* Line k of the file is the turn of run r: the onset printed is
\* run_start * step, the duration printed is run_length * step, both in
\* seconds with two decimals, and the tag is that of the run's label.
LineOfRun(k, r) ==
    /\ ParseFixed2(rttm_file[k].onset) = r[1] * step
    /\ ParseFixed2(rttm_file[k].duration) = (r[2] - r[1] + 1) * step
    /\ rttm_file[k].speaker = SpeakerTag(wr_labels[r[1] + 1])

C13_RoundTrip ==
    wr_pc = "expanded" =>
        /\ Len(rt_labels) = Len(wr_labels)
        /\ \A i \in 1..Len(wr_labels) :
              rt_labels[i] = IF wr_labels[i] >= 2 THEN wr_labels[i] ELSE 0

\* ------------------------------------------- claims: main, random generator
\* Number of masked-in frames of recording r, from the inputs of the run:
\* its frame count and its segments of the initial RTTM file.
MaskedCountOf(r) ==
    MaskedCount(Mask(GetLabels(SegsOf(recordings, r), frame_counts[r])))

\* Values drawn for the recordings of a set under random initialization.
RECURSIVE DrawsFor(_)
DrawsFor(rs) ==
    IF rs = {} THEN 0
    ELSE LET r == CHOOSE u \in rs : TRUE
         IN RandomDraws(MaskedCountOf(r), max_speakers) + DrawsFor(rs \ {r})

\* Values drawn before the engine is called for recording r when the
\* recordings are visited in sorted order.
DrawsBefore(r) ==
    IF initialize THEN 0
    ELSE DrawsFor({u \in DOMAIN frame_counts : RecIdRank(u) < RecIdRank(r)})

\* C14: no mutable state is shared between recordings: whatever recordings
\* were processed before it, the engine call of a recording finds the random
\* generator in the state the seeding left it in, so that what is computed
\* for the recording does not depend on them, under deterministic and under
\* random initialization of q.  (A call without any frame draws nothing and
\* is left out.)
C14_NoSharedState ==
    \A c \in engine_calls : c.T >= 1 => c.rng = SeedState(seed)

\* C15: two runs with the same seed, inputs and configuration compute the
\* same: at every engine call the generator draws from the stream of the seed
\* at a position that is a function of the inputs and the configuration (the
\* values drawn for the recordings that precede in sorted order), and not of
\* the order of the lines of utt2num_frames.
C15_SameSeedSameRun ==
    \A c \in engine_calls :
        c.rng = [stream |-> <<"seed", seed>>,
                 pos |-> DrawsBefore(c.recording_id)]

\* Under random initialization, with utt2num_frames listing rec2 first, the
\* engine has been called for both recordings and the second call found the
\* generator advanced by the first.
C15_Witness ==
    /\ ~initialize
    /\ utt_order = <<"rec2", "rec1">>
    /\ \E c \in engine_calls : c.recording_id = "rec1" /\ c.T >= 1
    /\ \E c \in engine_calls : c.recording_id = "rec2" /\ c.rng.pos > 0

\* ------------------------------------------ claims: VB_diarization's loop
\* What a call has returned is right, the test being test(new, old) on
\* consecutive values of the trace: the trace has one value per completed
\* iteration, q and sp are those of the last iteration, no iteration before
\* the last met the test, and the last one met it unless the budget of
\* maxIters iterations was used up.
SmallChange(new, old) == Abs(new - old) < epsilon
SmallImprovement(new, old) == new - old < epsilon

ReturnedAfterSmallChange ==
    LET n == Len(eng_ret.L)
    IN /\ n = ii
       /\ n <= maxIters
       /\ eng_ret.q = n
       /\ \A k \in 2..(n - 1) : ~SmallChange(eng_ret.L[k], eng_ret.L[k-1])
       /\ \/ n >= 2 /\ SmallChange(eng_ret.L[n], eng_ret.L[n-1])
          \/ n = maxIters

ReturnedAfterSmallImprovement ==
    LET n == Len(eng_ret.L)
    IN /\ n = ii
       /\ n <= maxIters
       /\ eng_ret.q = n
       /\ \A k \in 2..(n - 1) : ~SmallImprovement(eng_ret.L[k], eng_ret.L[k-1])
       /\ \/ n >= 2 /\ SmallImprovement(eng_ret.L[n], eng_ret.L[n-1])
          \/ n = maxIters

ScoredUris == {sc_recordings[i] : i \in DOMAIN sc_recordings}
ScoredOf(d) == IF d = "OVERALL" THEN ScoredUris ELSE domains[d] \cap ScoredUris

RECURSIVE ComponentsOf(_, _)
ComponentsOf(us, mname) ==
    IF us = {} THEN 0
    ELSE LET u == CHOOSE v \in us : TRUE
         IN Components(u, mname) + ComponentsOf(us \ {u}, mname)

\* The metrics returned for domain d are the sums over exactly the scored
\* recordings of d, each counted once.
DomainSumRight(d) ==
    /\ d \in DOMAIN per_domain_metrics
    /\ \A mname \in MetricNames :
          LET metric == per_domain_metrics[d][mname]
          IN /\ metric.accumulated_ = ComponentsOf(ScoredOf(d), mname)
             /\ metric.uris_ = ScoredOf(d)
             /\ Len(metric.results_) = Cardinality(ScoredOf(d))
             /\ \A u \in ScoredOf(d) :
                   \E k \in DOMAIN metric.results_ : metric.results_[k] = u

\* Whatever the workers' schedule was, what score_recordings returned is
\* right for every domain.
ReturnedSumsRight ==
    sc_pc = "returned" => \A d \in DOMAIN domains : DomainSumRight(d)

\* C20: for every n_jobs and every schedule of the workers, score_recordings
\* returns, for every domain and for "OVERALL", the sum of the metrics of
\* exactly the scored recordings of the domain, each counted once (the same
\* for every n_jobs, n_jobs = 1 included).
C20_DomainSums ==
    sc_pc \in {"returned", "raised"} =>
        /\ sc_pc = "returned"
        /\ \A d \in DOMAIN domains : DomainSumRight(d)

\* C30: score_recordings returns, without raising, an entry for every domain
\* of the domains argument and for "OVERALL"; for a domain none of whose
\* recordings was scored the entry holds empty sums.
C30_EntryForEveryDomain ==
    sc_pc \in {"returned", "raised"} =>
        /\ sc_pc # "raised"
        /\ DOMAIN per_domain_metrics = DOMAIN domains
        /\ \A d \in DOMAIN per_domain_metrics :
              ScoredOf(d) = {} =>
                  \A mname \in MetricNames :
                      per_domain_metrics[d][mname] = NewMetric

\* ---------------------------------------- claims: get_labels, range of labels
\* C29: for segments within the recording (0 <= onset <= offset < n_frames)
\* every array get_labels returns has n_frames labels, each 0, 1 or one of
\* 2..K+1 with K the number of distinct speaker ids of the segment list
\* (get_labels knows no maximum speaker count); without segments they are
\* all 0.
C29_LabelsWithinDistinctSpeakers ==
    \A c \in 1..Len(returned) :
        /\ Len(returned[c]) = n_frames
        /\ \A f \in 1..n_frames :
              returned[c][f] \in 0..(Cardinality(SpeakerIds) + 1)
        /\ Len(segs) = 0 => \A f \in 1..n_frames : returned[c][f] = 0

\* A list of three segments of two speakers has been labelled: the array
\* holds the largest label K + 1 = 3, and a frame without speaker.
C29_Witness ==
    /\ Len(returned) = 1
    /\ Len(segs) = 3
    /\ Cardinality(SpeakerIds) = 2
    /\ \E f \in 1..n_frames : returned[1][f] = 3
    /\ \E f \in 1..n_frames : returned[1][f] = 0

\* The line read last belongs to a recording that target_rec_ids does not name.
LineOfOtherRecording == line # NoLine /\ line.recording_id \notin TargetRecIds

\* A step of load_rttm that keeps a line puts its segment at the end of the
\* list of the line's recording and leaves every earlier segment in place.
AppendsInLineOrder ==
    [][(pc = "load" /\ outcome' = "appended") =>
           /\ SegsOf(loading', line'.recording_id) =
                  Append(SegsOf(loading, line'.recording_id),
                         SegsOf(loading', line'.recording_id)[
                             Len(SegsOf(loading, line'.recording_id)) + 1])
           /\ \A r \in DOMAIN loading :
                  r # line'.recording_id => loading'[r] = loading[r]]_vars

\* C27: load_rttm keeps only segments of recordings named in target_rec_ids:
\* a line of any other recording is skipped without being validated (nothing
\* is raised for it), and a line that is kept adds its segment, with the
\* line's speaker and onset, at the end of the list of its recording.
C27_OnlyTargetRecordings ==
    /\ \A r \in DOMAIN loading : r \in TargetRecIds
    /\ LineOfOtherRecording => (outcome = "skipped" /\ pc # "error")
    /\ outcome = "appended" =>
           /\ LastLoaded.recording_id = line.recording_id
           /\ LastLoaded.speaker_id = line.speaker_id
           /\ LastLoaded.onset = LineOnsetFrame

\* The recordings whose turn of the loop of main is over.
Completed == {recording_ids[i] : i \in 1..(rec_idx - 1)}

\* The recordings whose turn of the loop of main has not begun.
NotStarted == {recording_ids[i] : i \in (rec_idx + 1)..Len(recording_ids)}

\* The recordings some step of the loop has acted on: an engine call, a skip
\* or a written file.
Touched ==
    {c.recording_id : c \in engine_calls} \cup skipped \cup DOMAIN outputs

\* C23: main takes the recordings one at a time in ascending order of
\* recording id: while a recording is being processed every earlier one is
\* finished (skipped or written to the file named after it), no later one has
\* been touched, and the file of the current one is not yet written, so each
\* recording gets at most one output file.
C23_OneRecordingAtATime ==
    /\ \A i, j \in DOMAIN recording_ids :
           i < j => RecIdRank(recording_ids[i]) < RecIdRank(recording_ids[j])
    /\ rec_idx >= 1 =>
           /\ Completed \subseteq skipped \cup DOMAIN outputs
           /\ Touched \cap NotStarted = {}
           /\ DOMAIN outputs \subseteq Completed
           /\ skipped \subseteq Completed
    /\ rec_idx = 0 => Touched = {}

C23_Witness ==
    /\ pc = "engine"
    /\ utt_order = <<"rec2", "rec1">>
    /\ rec_idx = 2
    /\ recording_id = "rec2"
    /\ "rec1" \in DOMAIN outputs
    /\ \E c \in engine_calls : c.recording_id = "rec1"

\* main has passed the step that builds the initial posteriors from
\* init_labels, or has stopped in it.
InitialPosteriorTaken ==
    \/ pc = "engine"
    \/ pc = "error" /\ error_in = "frame_labels2posterior_mx"

MaxMinDur == 3
MaxPathLen == 6
MaxChains == 2

\* The speakers of the HMM: one linear chain of minDur sub-states each.
ChainSpeakers == 1..MaxChains

\* The speaker of the last frame of the state path.
CurrentSpeaker == state_path[Len(state_path)]

\* A chain may be left from any of its sub-states.
AtAnySubState(pos, d) == pos \in 1..d

\* A linear chain is left from its last sub-state only.
AtChainEnd(pos, d) == pos = d

HmmInit ==
    /\ minDur \in 1..MaxMinDur
    /\ state_path = <<>>
    /\ chain_pos = 0
    /\ LabelsIdle
    /\ MainIdle
    /\ RttmIdle
    /\ EngIdle
    /\ ScoreIdle
    /\ SparseIdle
    /\ TargetsIdle
    /\ DataDirIdle

\* The first frame: a path starts in the first sub-state of some chain.
HmmEnter ==
    /\ state_path = <<>>
    /\ \E s \in ChainSpeakers : state_path' = <<s>>
    /\ chain_pos' = 1
    /\ UNCHANGED minDur
    /\ UNCHANGED nonHmmVars

\* Inside a chain the only transition is to the next sub-state.
HmmAdvance ==
    /\ state_path # <<>>
    /\ Len(state_path) < MaxPathLen
    /\ chain_pos < minDur
    /\ state_path' = Append(state_path, CurrentSpeaker)
    /\ chain_pos' = chain_pos + 1
    /\ UNCHANGED minDur
    /\ UNCHANGED nonHmmVars

\* The self loop (--loopProb) of the last sub-state of a chain.
HmmLoop ==
    /\ state_path # <<>>
    /\ Len(state_path) < MaxPathLen
    /\ AtChainEnd(chain_pos, minDur)
    /\ state_path' = Append(state_path, CurrentSpeaker)
    /\ chain_pos' = chain_pos
    /\ UNCHANGED minDur
    /\ UNCHANGED nonHmmVars

\* The transition to the first sub-state of the chain of speaker s.
HmmSwitch(s) ==
    /\ state_path # <<>>
    /\ Len(state_path) < MaxPathLen
    /\ AtChainEnd(chain_pos, minDur)
    /\ state_path' = Append(state_path, s)
    /\ chain_pos' = 1
    /\ UNCHANGED minDur
    /\ UNCHANGED nonHmmVars

HmmNext ==
    \/ HmmEnter
    \/ HmmAdvance
    \/ HmmLoop
    \/ \E s \in ChainSpeakers : HmmSwitch(s)

SpecHmm == HmmInit /\ [][HmmNext]_vars

\* Frame i of the state path is followed by a frame of another speaker.
TurnAfter(i) == i < Len(state_path) /\ state_path[i + 1] # state_path[i]

\* The d frames up to frame i of the state path exist and are on one speaker.
OnSpeakerFor(i, d) ==
    /\ i >= d
    /\ \A j \in (i - d + 1)..i : state_path[j] = state_path[i]

\* C24: on every state path of the HMM a transition to another speaker comes
\* only after at least minDur consecutive frames on the speaker that is left;
\* with minDur = 1 a transition to any speaker is possible after every frame.
C24_MinimumSojourn ==
    /\ \A i \in DOMAIN state_path : TurnAfter(i) => OnSpeakerFor(i, minDur)
    /\ (minDur = 1 /\ state_path # <<>> /\ Len(state_path) < MaxPathLen) =>
           \A s \in ChainSpeakers : ENABLED HmmSwitch(s)

C24_Witness ==
    /\ minDur = 2
    /\ state_path = <<1, 1, 2, 2, 2, 1>>

\* ------------------------------------------------ sparsification of q
\* Probabilities are whole numbers of parts of 1/ProbUnits; a row of q holds
\* at most MaxColumns speakers.
ProbUnits == 6
MaxColumns == 3

\* The sum of the entries of a row.
RECURSIVE RowSum(_, _)
RowSum(row, k) == IF k = 0 THEN 0 ELSE row[k] + RowSum(row, k - 1)

\* The row-stochastic rows over S speakers.
StochasticRows(S) ==
    {row \in [1..S -> 0..ProbUnits] : RowSum(row, S) = ProbUnits}

\* Occupations larger than the threshold are set to 0.
SparsifyAbove(row, thr) ==
    [k \in DOMAIN row |-> IF row[k] > thr THEN 0 ELSE row[k]]

\* Occupations smaller than --sparsityThr are set to 0; nothing is
\* re-normalised.
Sparsify(row, thr) ==
    [k \in DOMAIN row |-> IF row[k] < thr THEN 0 ELSE row[k]]

\* The label main reconstructs for a masked-in frame with posterior row.
DecodedLabel(row) == Reconstruct(<<TRUE>>, <<row>>, <<2>>)[1]

SparseInit ==
    /\ q_row \in UNION {StochasticRows(S) : S \in 1..MaxColumns}
    /\ sparsityThr \in 0..ProbUnits
    /\ q_sparse = <<>>
    /\ sparse_label = 0
    /\ thr_pc = "start"
    /\ LabelsIdle
    /\ MainIdle
    /\ RttmIdle
    /\ EngIdle
    /\ ScoreIdle
    /\ HmmIdle
    /\ TargetsIdle
    /\ DataDirIdle

\* Step 4 of an iteration of the engine.
Sparsification ==
    /\ thr_pc = "start"
    /\ q_sparse' = Sparsify(q_row, sparsityThr)
    /\ thr_pc' = "sparse"
    /\ UNCHANGED <<q_row, sparsityThr, sparse_label>>
    /\ UNCHANGED nonSparseVars

\* main decodes the row the engine returned.
DecodeSparse ==
    /\ thr_pc = "sparse"
    /\ sparse_label' = DecodedLabel(q_sparse)
    /\ thr_pc' = "decoded"
    /\ UNCHANGED <<q_row, sparsityThr, q_sparse>>
    /\ UNCHANGED nonSparseVars

SparseNext ==
    \/ Sparsification
    \/ DecodeSparse

SpecSparse == SparseInit /\ [][SparseNext]_vars

\* The threshold is at most 1/S for the S speakers of the row.
ThresholdAtMostUniform == sparsityThr * Len(q_row) <= ProbUnits

\* C26: for a row-stochastic row over S speakers and a threshold of at most
\* 1/S, setting the entries below the threshold to 0 without re-normalising
\* changes neither the argmax of the row nor the label reconstructed from it.
C26_SparsificationKeepsLabel ==
    (thr_pc = "decoded" /\ ThresholdAtMostUniform) =>
        /\ ArgMax(q_sparse) = ArgMax(q_row)
        /\ sparse_label = DecodedLabel(q_row)

C26_Witness ==
    /\ thr_pc = "decoded"
    /\ q_row = <<1, 3, 2>>
    /\ sparsityThr = 2
    /\ q_sparse = <<0, 3, 2>>
    /\ sparse_label = 3

\* ------------------------------------------------- prepare_sad_targets
\* Largest frame count of a recording, most segments of a recording in a
\* segments file, and largest --subsampling-factor.
MaxTargetFrames == 4
MaxRegions == 1
MaxFactor == 3

\* The recording of the line of utt2num_frames.
tg_recording_id == "rec1"

\* Segments in frames as Segmentation accepts them (positive duration); the
\* offset may lie past the last frame.
Regions(n) == {sg \in [onset : 0..(n - 1), offset : 1..n] : sg.onset < sg.offset}

\* What read_segments_file may return about the recording: nothing, or a
\* Segmentation of at least one segment.
Segmentations(n) ==
    {EmptyDict} \cup
    {[r \in {tg_recording_id} |-> sgs] :
        sgs \in UNION {[1..k -> Regions(n)] : k \in 1..MaxRegions}}

\* Frame f (counted from 0) lies in one of the slices [onset:offset+1].
InSlices(sgs, f) ==
    \E i \in DOMAIN sgs : sgs[i].onset <= f /\ f <= sgs[i].offset

\* targets = np.zeros(n_frames); targets[onset:offset+1] = 1 per segment.
SpeechTargets(n, segmentations) ==
    [f \in 1..n |->
        IF /\ tg_recording_id \in DOMAIN segmentations
           /\ InSlices(segmentations[tg_recording_id], f - 1)
        THEN 1 ELSE 0]

\* is_scored[onset:offset+1] = True per annotated segment.
IsScored(n, sgs) == [f \in 1..n |-> InSlices(sgs, f - 1)]

\* targets[~is_scored] = 2
GarbageTargets(t, scored) ==
    [f \in DOMAIN t |-> IF scored[f] THEN t[f] ELSE 2]

\* np.eye(3)[targets]: columns non-speech, speech, garbage.
Eye3(t) == [f \in DOMAIN t |-> [c \in 1..3 |-> IF c = t[f] + 1 THEN 1 ELSE 0]]

\* mode='nearest': an index outside the array stands for the nearest frame.
Nearest(j, n) == IF j < 0 THEN 0 ELSE IF j > n - 1 THEN n - 1 ELSE j

\* The sum of column c over the frames lo..hi (counted from 0).
RECURSIVE WindowSum(_, _, _, _)
WindowSum(frames, lo, hi, c) ==
    IF lo > hi THEN 0
    ELSE frames[Nearest(hi, Len(frames)) + 1][c] +
         WindowSum(frames, lo, hi - 1, c)

\* convolve1d(frames, np.ones(N)/N, origin=-(N//2), axis=0, mode='nearest')
\* at index ll, times N: the window of N frames that ends at ll.
Smoothed(frames, N, ll) ==
    [c \in 1..3 |-> WindowSum(frames, ll - N + 1, ll, c)]

\* inds = np.minimum(np.arange(n_frames_sub)*N + N, n_frames - 1)
Inds(k, N, n) == IF k * N + N < n - 1 THEN k * N + N ELSE n - 1

\* subsample_frames(frames, N): the rows returned, as numerators over the
\* common denominator den.
SubsampleFrames(frames, N) ==
    IF N <= 1
    THEN [den |-> 1, rows |-> frames]
    ELSE LET n == Len(frames)
             n_frames_sub == (n + N - 1) \div N
         IN [den |-> N,
             rows |-> [k \in 1..n_frames_sub |->
                          Smoothed(frames, N, Inds(k - 1, N, n))]]

TargetsInit ==
    /\ tg_n_frames \in 1..MaxTargetFrames
    /\ speech_segments \in Segmentations(tg_n_frames)
    /\ annotated_file \in BOOLEAN
    /\ annotated_segments \in
           IF annotated_file THEN Segmentations(tg_n_frames) ELSE {EmptyDict}
    /\ subsampling_factor \in 1..MaxFactor
    /\ targets = <<>>
    /\ is_scored = <<>>
    /\ targets_onehot = <<>>
    /\ targets_sub = <<>>
    /\ archive = EmptyDict
    /\ tg_pc = "start"
    /\ LabelsIdle
    /\ MainIdle
    /\ RttmIdle
    /\ EngIdle
    /\ ScoreIdle
    /\ HmmIdle
    /\ SparseIdle
    /\ DataDirIdle

\* "Create targets": the speech segments of the recording are marked.
CreateTargets ==
    /\ tg_pc = "start"
    /\ targets' = SpeechTargets(tg_n_frames, speech_segments)
    /\ tg_pc' = "annotated"
    /\ UNCHANGED <<tg_n_frames, speech_segments, annotated_file,
                   annotated_segments, subsampling_factor, is_scored,
                   targets_onehot, targets_sub, archive>>
    /\ UNCHANGED nonTargetsVars

\* "if recording_id in annotated_segments": frames outside the annotated
\* segments of the recording become garbage.
MarkGarbage ==
    /\ tg_pc = "annotated"
    /\ IF tg_recording_id \in DOMAIN annotated_segments
       THEN LET scored == IsScored(tg_n_frames,
                                   annotated_segments[tg_recording_id])
            IN /\ is_scored' = scored
               /\ targets' = GarbageTargets(targets, scored)
       ELSE UNCHANGED <<is_scored, targets>>
    /\ tg_pc' = "onehot"
    /\ UNCHANGED <<tg_n_frames, speech_segments, annotated_file,
                   annotated_segments, subsampling_factor,
                   targets_onehot, targets_sub, archive>>
    /\ UNCHANGED nonTargetsVars

\* "Convert targets to one-hot."
ConvertOneHot ==
    /\ tg_pc = "onehot"
    /\ targets_onehot' = Eye3(targets)
    /\ tg_pc' = "subsample"
    /\ UNCHANGED <<tg_n_frames, speech_segments, annotated_file,
                   annotated_segments, subsampling_factor, targets, is_scored,
                   targets_sub, archive>>
    /\ UNCHANGED nonTargetsVars

\* "Subsample by requested factor."
Subsample ==
    /\ tg_pc = "subsample"
    /\ targets_sub' = SubsampleFrames(targets_onehot, subsampling_factor)
    /\ tg_pc' = "write"
    /\ UNCHANGED <<tg_n_frames, speech_segments, annotated_file,
                   annotated_segments, subsampling_factor, targets, is_scored,
                   targets_onehot, archive>>
    /\ UNCHANGED nonTargetsVars

\* kaldi_io.write_mat(g, targets, key=recording_id)
WriteMat ==
    /\ tg_pc = "write"
    /\ archive' = [r \in {tg_recording_id} |-> targets_sub]
    /\ tg_pc' = "done"
    /\ UNCHANGED <<tg_n_frames, speech_segments, annotated_file,
                   annotated_segments, subsampling_factor, targets, is_scored,
                   targets_onehot, targets_sub>>
    /\ UNCHANGED nonTargetsVars

TargetsNext ==
    \/ CreateTargets
    \/ MarkGarbage
    \/ ConvertOneHot
    \/ Subsample
    \/ WriteMat

SpecTargets == TargetsInit /\ [][TargetsNext]_vars

\* The annotated regions of the recording: those the annotated segments file
\* lists for it, none if it lists none.
AnnotatedRegions == SegsOf(annotated_segments, tg_recording_id)

\* A row of numerators over den is a distribution.
IsDistribution(row, den) ==
    /\ \A c \in 1..3 : row[c] >= 0
    /\ row[1] + row[2] + row[3] = den

\* C21: every row of a targets matrix written to the archive is a
\* distribution over (non-speech, speech, garbage), subsampled or not;
\* without --annotated-segments the garbage column is 0 in every row; with
\* it, every frame outside the annotated regions of the recording is
\* garbage, covered by a speech segment or not.
C21_TargetsAreDistributions ==
    tg_pc = "done" =>
        LET mat == archive[tg_recording_id]
        IN /\ \A k \in DOMAIN mat.rows : IsDistribution(mat.rows[k], mat.den)
           /\ ~annotated_file => \A k \in DOMAIN mat.rows : mat.rows[k][3] = 0
           /\ annotated_file =>
                  \A f \in 1..tg_n_frames :
                      ~InSlices(AnnotatedRegions, f - 1) =>
                          targets_onehot[f] = <<0, 0, 1>>

\* First and last frame (counted from 0) of block k of N frames among n.
BlockFirst(k, N) == k * N
BlockLast(k, N, n) == IF k * N + N - 1 < n - 1 THEN k * N + N - 1 ELSE n - 1

\* C22: for N > 1 subsample_frames returns one row per block of N
\* consecutive frames (block k = frames kN..kN+N-1, the last block possibly
\* shorter), and the row of a block is the average of the frames of the block.
C22_BlockAverages ==
    (tg_pc \in {"write", "done"} /\ subsampling_factor > 1) =>
        LET N == subsampling_factor
            n == Len(targets_onehot)
        IN /\ Len(targets_sub.rows) = (n + N - 1) \div N
           /\ \A k \in 0..(Len(targets_sub.rows) - 1) : \A c \in 1..3 :
                  targets_sub.rows[k + 1][c] *
                      (BlockLast(k, N, n) - BlockFirst(k, N) + 1) =
                  WindowSum(targets_onehot, BlockFirst(k, N),
                            BlockLast(k, N, n), c) * targets_sub.den

\* --------------------------------------------------------- make_data_dir
\* Most lines of a label file.
MaxLabLines == 3

\* The decimal digits of n, most significant first.
RECURSIVE Digits(_)
Digits(n) == IF n < 10 THEN <<n>> ELSE Append(Digits(n \div 10), n % 10)

\* Zeros in front of ds up to a width of w digits; a longer ds is kept whole.
RECURSIVE ZeroPad(_, _)
ZeroPad(ds, w) == IF Len(ds) >= w THEN ds ELSE ZeroPad(<<0>> \o ds, w)

\* f'{n:04d}'
Format04d(n) == ZeroPad(Digits(n), 4)

\* The utterance id of enumerate(f, start=0).
UtteranceIdFromZero(rid, n) == <<rid, "_", Format04d(n - 1)>>

\* f'{recording_id}_{n:04d}'
UtteranceId(rid, n) == <<rid, "_", Format04d(n)>>

\* String order of two digit strings.
RECURSIVE DigitsBefore(_, _)
DigitsBefore(a, b) ==
    IF a = <<>> THEN b # <<>>
    ELSE IF b = <<>> THEN FALSE
    ELSE IF a[1] # b[1] THEN a[1] < b[1]
    ELSE DigitsBefore(Tail(a), Tail(b))

\* sorted(recording.segments, key=lambda x: x.utterance_id), for the
\* segments of one recording.
SortedByUtteranceId(sgs) ==
    CHOOSE o \in [1..Len(sgs) -> {sgs[i] : i \in DOMAIN sgs}] :
        /\ \A i \in DOMAIN sgs : \E j \in DOMAIN o : o[j] = sgs[i]
        /\ \A i, j \in DOMAIN o :
               i < j => DigitsBefore(o[i].utterance_id[3], o[j].utterance_id[3])

\* The lines write_utt2spk writes for one recording.
Utt2spkLines(rid, sgs) ==
    LET o == SortedByUtteranceId(sgs)
    IN [i \in DOMAIN o |->
           [utterance_id |-> o[i].utterance_id, speaker_id |-> rid]]

DataDirInit ==
    /\ \E ids \in SUBSET RecIds :
          /\ md_recordings = Sorted(ids)
          /\ lab_files \in [ids -> 0..MaxLabLines]
    /\ md_segments = EmptyDict
    /\ md_rec = 1
    /\ md_n = 0
    /\ utt2spk = <<>>
    /\ md_pc = "segments"
    /\ LabelsIdle
    /\ MainIdle
    /\ RttmIdle
    /\ EngIdle
    /\ ScoreIdle
    /\ HmmIdle
    /\ SparseIdle
    /\ TargetsIdle

\* read_label_file reads line n of the label file of the recording that
\* write_segments_file is at (the first access of recording.segments).
ReadLabelLine ==
    /\ md_pc = "segments"
    /\ md_rec <= Len(md_recordings)
    /\ LET rid == md_recordings[md_rec]
       IN /\ md_n < lab_files[rid]
          /\ md_n' = md_n + 1
          /\ md_segments' =
                 [r \in DOMAIN md_segments \cup {rid} |->
                     IF r = rid
                     THEN Append(SegsOf(md_segments, rid),
                                 [utterance_id |-> UtteranceId(rid, md_n + 1),
                                  line |-> md_n + 1])
                     ELSE md_segments[r]]
    /\ UNCHANGED <<lab_files, md_recordings, md_rec, utt2spk, md_pc>>
    /\ UNCHANGED nonDataDirVars

\* End of the label file: read_label_file returns and the segments are kept
\* in recording._segments.
ReadLabelReturn ==
    /\ md_pc = "segments"
    /\ md_rec <= Len(md_recordings)
    /\ LET rid == md_recordings[md_rec]
       IN /\ md_n = lab_files[rid]
          /\ md_segments' = [r \in DOMAIN md_segments \cup {rid} |->
                                SegsOf(md_segments, r)]
    /\ md_rec' = md_rec + 1
    /\ md_n' = 0
    /\ UNCHANGED <<lab_files, md_recordings, utt2spk, md_pc>>
    /\ UNCHANGED nonDataDirVars

\* write_segments_file is over; write_utt2spk starts.
StartUtt2spk ==
    /\ md_pc = "segments"
    /\ md_rec > Len(md_recordings)
    /\ md_rec' = 1
    /\ md_pc' = "utt2spk"
    /\ UNCHANGED <<lab_files, md_recordings, md_segments, md_n, utt2spk>>
    /\ UNCHANGED nonDataDirVars

\* write_utt2spk writes the lines of one recording.
WriteUtt2spk ==
    /\ md_pc = "utt2spk"
    /\ md_rec <= Len(md_recordings)
    /\ LET rid == md_recordings[md_rec]
       IN utt2spk' = utt2spk \o Utt2spkLines(rid, md_segments[rid])
    /\ md_rec' = md_rec + 1
    /\ UNCHANGED <<lab_files, md_recordings, md_segments, md_n, md_pc>>
    /\ UNCHANGED nonDataDirVars

\* utt2spk is closed.
CloseUtt2spk ==
    /\ md_pc = "utt2spk"
    /\ md_rec > Len(md_recordings)
    /\ md_pc' = "done"
    /\ UNCHANGED <<lab_files, md_recordings, md_segments, md_rec, md_n,
                   utt2spk>>
    /\ UNCHANGED nonDataDirVars

DataDirNext ==
    \/ ReadLabelLine
    \/ ReadLabelReturn
    \/ StartUtt2spk
    \/ WriteUtt2spk
    \/ CloseUtt2spk

SpecDataDir == DataDirInit /\ [][DataDirNext]_vars

\* The number a digit string stands for.
RECURSIVE DigitsValue(_)
DigitsValue(ds) ==
    IF ds = <<>> THEN 0
    ELSE 10 * DigitsValue(SubSeq(ds, 1, Len(ds) - 1)) + ds[Len(ds)]

\* ds is n written in decimal and padded with zeros to 4 digits.
IsPaddedIndex(ds, n) ==
    /\ Len(ds) >= 4
    /\ DigitsValue(ds) = n
    /\ Len(ds) > 4 => ds[1] # 0

\* Line numbers at which the number of digits of n changes.
IndexSamples == {1, 9, 10, 99, 100, 999, 1000, 9999, 10000, 10001}

\* C28: the n-th segment (counted from 1) of the label file of a recording
\* has the utterance id <recording-id>_<n padded with zeros to 4 digits>, the
\* utterance ids of a recording are pairwise distinct, and utt2spk has one
\* line per utterance, which gives the recording the utterance is from.
C28_UtteranceIds ==
    /\ \A n \in IndexSamples :
           /\ IsPaddedIndex(Format04d(n), n)
           /\ \A k \in IndexSamples : k # n => Format04d(k) # Format04d(n)
    /\ \A rid \in DOMAIN md_segments : \A n \in DOMAIN md_segments[rid] :
           LET sg == md_segments[rid][n]
           IN /\ sg.line = n
              /\ sg.utterance_id[1] = rid
              /\ sg.utterance_id[2] = "_"
              /\ IsPaddedIndex(sg.utterance_id[3], n)
              /\ \A k \in DOMAIN md_segments[rid] :
                     k # n => md_segments[rid][k].utterance_id # sg.utterance_id
    /\ md_pc = "done" =>
           /\ \A rid \in DOMAIN lab_files :
                  Len(md_segments[rid]) = lab_files[rid]
           /\ \A i \in DOMAIN utt2spk :
                  \E n \in DOMAIN md_segments[utt2spk[i].speaker_id] :
                      md_segments[utt2spk[i].speaker_id][n].utterance_id =
                          utt2spk[i].utterance_id
           /\ \A rid \in DOMAIN md_segments :
                  \A n \in DOMAIN md_segments[rid] :
                      Cardinality({i \in DOMAIN utt2spk :
                          utt2spk[i].utterance_id =
                              md_segments[rid][n].utterance_id}) = 1

C28_Witness ==
    /\ md_pc = "done"
    /\ md_recordings = <<"rec1", "rec2">>
    /\ Len(utt2spk) = 5
    /\ utt2spk[2] = [utterance_id |-> <<"rec1", "_", <<0, 0, 0, 2>>>>,
                     speaker_id |-> "rec1"]
    /\ utt2spk[5] = [utterance_id |-> <<"rec2", "_", <<0, 0, 0, 3>>>>,
                     speaker_id |-> "rec2"]

====
